---- MODULE Spec2Model ----
(***************************************************************************)
(* Reolink plugin: the device session (Client), the capability probe and   *)
(* the camera registry (Plugin), modelled from client.go, camera.go and    *)
(* main.go.                                                                *)
(*                                                                         *)
(* Spec          one Client shared by concurrent goroutines                *)
(* SpecSeq       the same Client driven by a single goroutine              *)
(* SpecRegistry  the Plugin's camera map under the plugin's commands       *)
(***************************************************************************)
EXTENDS Integers, Sequences, FiniteSets, TLC

-----------------------------------------------------------------------------
(* Bounds *)

NumProcs == 2
MaxEarly == 0
LateBase == 3539
MaxLate == 2
MaxChannels == 2
MaxClients == 2
MaxChannelArg == 1
MaxShort == 3
MaxNeedle == 2
\* PTZCommand.Speed is a float64; the model counts it in thousandths. A product
\* speed * 64 is exact in float64 (a power of two), and the thousandths whose
\* product is a whole number are multiples of 1/8, which float64 holds exactly,
\* so the integer part of the product is that of the exact quotient.
SpeedScale == 1000

(* Program constants *)

DefaultLeaseTime == 3600
TokenMargin == 60
ZeroTime == 0
\* the speed of a PTZCmd when the command names none (camera.go:355)
DefaultSpeed == 30
\* the vendor scale of the speed (camera.go:386)
VendorScale == 64

-----------------------------------------------------------------------------
(* Domains *)

Procs == 1..NumProcs
Owner == 1
NoProc == 0

\* clock values: a few instants right after start and a few around one
\* default lease later
Times == (0..MaxEarly) \cup (LateBase..(LateBase + MaxLate))

\* what one HTTP exchange with the device can give back:
\*   transport  http.Client.Do failed (connection error, timeout, cancelled ctx)
\*   http_err   a status other than 200
\*   parse_err  a body that is not a JSON array of responses
\*   empty      an empty array
\*   code_err   first response with code # 0
\*   bad_value  code 0 with a value of an unexpected shape
\*   ok         code 0 with a well-formed value
Outcomes == {"transport", "http_err", "parse_err", "empty", "code_err", "bad_value", "ok"}

\* token names the device issues (the device never issues an empty name)
TokenNames == {"tokA", "tokB"}

\* leaseTime of a login response: absent, or a number of seconds
Leases == {<< >>, <<3600>>, <<60>>}

\* channelNum of a GetDevInfo response: absent, or a number
ChannelNums == {<< >>} \cup {<<n>> : n \in (0 - 1)..MaxChannels}

ZeroStream == [width |-> 0, codec |-> ""]
ZeroEncoderConfig == [MainStream |-> ZeroStream, SubStream |-> ZeroStream]
\* the configurations a device answers GetEnc with; Enc may lack subStream
EncoderConfigs ==
    {[MainStream |-> [width |-> 2560, codec |-> "h265"], SubStream |-> s] :
        s \in {ZeroStream, [width |-> 640, codec |-> "h264"]}}

ZeroAbility == [PTZ |-> FALSE, PanTilt |-> FALSE, AudioAlarm |-> FALSE, TwoWayAudio |-> FALSE]
Abilities == {[PTZ |-> TRUE, PanTilt |-> FALSE, AudioAlarm |-> FALSE, TwoWayAudio |-> TRUE],
              [PTZ |-> FALSE, PanTilt |-> TRUE, AudioAlarm |-> TRUE, TwoWayAudio |-> FALSE]}


NoPayload == [channelNum |-> << >>, model |-> << >>, ability |-> ZeroAbility, enc |-> ZeroEncoderConfig,
              resp |-> "none"]

-----------------------------------------------------------------------------
VARIABLES
    \* Client (client.go:20-32)
    token, tokenExp, useBasicAuth, mu,
    \* time.Now()
    now,
    \* goroutines using the Client
    pc, op, stage, cmd, caller, lg, lres, ares, apay, req,
    \* whether the Client was handed out (registered) and whether it was used
    started, shared,
    \* ProbeCamera's result under construction
    probe,
    \* observations
    lastLogin, ens, nlogin, obs, pre, tokenBy, expBy, par,
    \* Plugin (main.go:72-78): the camera map, the plugin context, and the
    \* connection (initialize or add_camera) under way
    cameras, pctx, crashed, run, nextClient,
    \* the command last handled, with its result
    lastCmd,
    \* the PTZ command a Camera handled last: the command, the PTZCmd made of
    \* it, the result and what the device answered to the PtzCtrl request
    ptz,
    \* Plugin.mu (main.go:76), a sync.RWMutex: its writer and its readers
    pmu,
    \* the locks of Plugin, Camera and Client as the commands take them: for
    \* each goroutine the lock operations its command has still to do, the
    \* locks it holds, and the lock whose Lock() it has called and waits in
    ord,
    \* the classification of one model string: the string, the substring
    \* looked for, the channel count, and what the matchers answered
    mdl, needle, nch, out

clientVars == <<token, tokenExp, useBasicAuth, mu>>
procVars == <<pc, op, stage, cmd, caller, lg, lres, ares, apay, req>>
obsVars == <<lastLogin, ens, nlogin, obs, pre, tokenBy, expBy, par>>
sessionVars == <<clientVars, now, procVars, started, shared, probe, obsVars>>

registryVars == <<cameras, pctx, crashed, run, nextClient, lastCmd>>

pureVars == <<mdl, needle, nch, out>>

nonSessionVars == <<registryVars, pureVars, ptz, pmu, ord>>
nonRegistryVars == <<sessionVars, pureVars, ptz, pmu, ord>>

vars == <<sessionVars, registryVars, pureVars, ptz, pmu, ord>>

-----------------------------------------------------------------------------
(* Client: pure parts *)

\* client.go:138-141
LeaseTime(lt) == IF Len(lt) = 0 THEN DefaultLeaseTime ELSE lt[1]

\* the expiry without the safety margin
TokenExpiry_NoMargin(t, leaseTime) == t + leaseTime

\* client.go:145
TokenExpiry(t, leaseTime) == t + (leaseTime - TokenMargin)

\* client.go:211   time.Now().After(c.tokenExp) is strict
NeedLogin(useBasic, tok, exp, t) == ~useBasic /\ (tok = "" \/ t > exp)

\* doRequestURL (client.go:608-641): an error for a transport failure, a
\* status other than 200 or an unparseable body
DoRequestURLFails(o) == o \in {"transport", "http_err", "parse_err"}

\* Login (client.go:102-110): the HTTPS endpoint is tried when the HTTP
\* request returned any error
LoginExchange(o1, o2) == IF DoRequestURLFails(o1) THEN o2 ELSE o1

\* tryBasicAuth (client.go:163-176): the HTTPS endpoint is tried when
\* http.Client.Do failed on the HTTP one
BasicExchange(o1, o2) == IF o1 = "transport" THEN o2 ELSE o1

\* tryBasicAuth (client.go:177-205): success is status 200, a parseable,
\* non-empty array and code 0
\* any parsed response taken for a success
BasicAuthAccepted_AnyResponse(o) == o \in {"empty", "code_err", "bad_value", "ok"}

BasicAuthAccepted(o) == o \in {"bad_value", "ok"}

\* the store made before the status code is looked at
LoginStores_BeforeCodeCheck(o) == o \in {"ok", "code_err"}

\* Login (client.go:112-141): the response passes every check before the store
LoginStores(o) == o = "ok"

\* Login (client.go:107-149): the value Login returns after the token request
LoginResult(o) == IF o = "ok" THEN "nil" ELSE "err"

\* doRequest (client.go:590-606): the query parameters of an API request
RequestURL(useBasic, tok) ==
    IF useBasic THEN [tokenParam |-> FALSE, creds |-> TRUE]
    ELSE IF tok # "" THEN [tokenParam |-> TRUE, creds |-> FALSE]
    ELSE [tokenParam |-> FALSE, creds |-> FALSE]

\* GetSnapshot (client.go:435-440): the query parameters of the Snap request
SnapshotURL(tok) == [tokenParam |-> TRUE, creds |-> FALSE]

\* what each API method returns for the outcome of its one request
ApiResult(c, o) ==
    CASE c = "Snap" -> IF o \in {"transport", "http_err"} THEN "err" ELSE "ok"
      [] DoRequestURLFails(o) -> "err"
      [] c = "GetDevInfo" -> IF o = "ok" THEN "ok" ELSE "err"
      [] c \in {"GetAbility", "GetEnc"} -> IF o \in {"empty", "code_err"} THEN "err" ELSE "ok"
      [] c = "PtzCtrl" -> IF o = "code_err" THEN "err" ELSE "ok"

\* GetDeviceInfo (client.go:264-269)
ChannelCountOf(cn) ==
    LET v == IF Len(cn) = 0 THEN 0 ELSE cn[1]
    IN IF v = 0 THEN 1 ELSE v

-----------------------------------------------------------------------------
(* Model strings.  A string is the sequence of its bytes, so that the case  *)
(* folding of each matcher is computed as the code computes it.             *)

\* the substrings the matchers look for (client.go:534-581, camera.go:460-475)
Kw ==
   [doorbell |-> <<100, 111, 111, 114, 98, 101, 108, 108>>,  \* "doorbell"
    nvr |-> <<110, 118, 114>>,  \* "nvr"
    rlnk |-> <<114, 108, 110, 107>>,  \* "rlnk"
    argus |-> <<97, 114, 103, 117, 115>>,  \* "argus"
    lumus |-> <<108, 117, 109, 117, 115>>,  \* "lumus"
    trackmi |-> <<116, 114, 97, 99, 107, 109, 105>>,  \* "trackmi"
    duo |-> <<100, 117, 111>>,  \* "duo"
    floodlight |-> <<102, 108, 111, 111, 100, 108, 105, 103, 104, 116>>,  \* "floodlight"
    rln8_410 |-> <<114, 108, 110, 56, 45, 52, 49, 48>>,  \* "rln8-410"
    rln16_410 |-> <<114, 108, 110, 49, 54, 45, 52, 49, 48>>,  \* "rln16-410"
    rln36 |-> <<114, 108, 110, 51, 54>>,  \* "rln36"
    go |-> <<103, 111>>,  \* "go"
    battery |-> <<98, 97, 116, 116, 101, 114, 121>>,  \* "battery"
    rlc_410 |-> <<114, 108, 99, 45, 52, 49, 48>>,  \* "rlc-410"
    rlc_420 |-> <<114, 108, 99, 45, 52, 50, 48>>,  \* "rlc-420"
    e1_zoom |-> <<101, 49, 32, 122, 111, 111, 109>>,  \* "e1 zoom"
    c1_pro |-> <<99, 49, 32, 112, 114, 111>>]  \* "c1 pro"

\* model strings a device may report (client.go:473, main.go:1059-1066,
\* main.go:1105-1109, camera_test.go:468-474)
Model ==
   [VideoDoorbellPoE |-> <<82, 101, 111, 108, 105, 110, 107, 32, 86, 105, 100, 101, 111, 32, 68, 111, 111, 114, 98, 101, 108, 108, 32, 80, 111, 69>>,  \* "Reolink Video Doorbell PoE"
    RLN8_410 |-> <<82, 76, 78, 56, 45, 52, 49, 48>>,  \* "RLN8-410"
    Argus3Pro |-> <<65, 114, 103, 117, 115, 32, 51, 32, 80, 114, 111>>,  \* "Argus 3 Pro"
    TrackMixPoE |-> <<84, 114, 97, 99, 107, 77, 105, 120, 32, 80, 111, 69>>,  \* "TrackMix PoE"
    DuoFloodlight |-> <<82, 101, 111, 108, 105, 110, 107, 32, 68, 117, 111, 32, 70, 108, 111, 111, 100, 108, 105, 103, 104, 116>>,  \* "Reolink Duo Floodlight"
    RLC_810A |-> <<82, 76, 67, 45, 56, 49, 48, 65>>,  \* "RLC-810A"
    Lumus |-> <<76, 117, 109, 117, 115>>,  \* "Lumus"
    E1Outdoor |-> <<69, 49, 32, 79, 117, 116, 100, 111, 111, 114>>,  \* "E1 Outdoor"
    RLN16_410 |-> <<82, 76, 78, 49, 54, 45, 52, 49, 48>>,  \* "RLN16-410"
    RLN36_POE |-> <<82, 76, 78, 51, 54, 45, 80, 79, 69>>,  \* "RLN36-POE"
    NVR_8_POE |-> <<78, 86, 82, 45, 56, 45, 80, 79, 69>>,  \* "NVR-8-POE"
    RLNK_410 |-> <<82, 76, 78, 75, 45, 52, 49, 48>>,  \* "RLNK-410"
    RLC_410 |-> <<82, 76, 67, 45, 52, 49, 48>>,  \* "RLC-410"
    RLC_420 |-> <<82, 76, 67, 45, 52, 50, 48>>,  \* "RLC-420"
    E1Zoom |-> <<69, 49, 32, 90, 111, 111, 109>>,  \* "E1 Zoom"
    C1Pro |-> <<67, 49, 32, 80, 114, 111>>,  \* "C1 Pro"
    RLC_1410 |-> <<82, 76, 67, 45, 49, 52, 49, 48>>,  \* "RLC-1410"
    RLC_823A |-> <<82, 76, 67, 45, 56, 50, 51, 65, 32, 83, 112, 111, 116, 108, 105, 103, 104, 116, 32, 80, 111, 69>>,  \* "RLC-823A Spotlight PoE"
    GoPT |-> <<82, 101, 111, 108, 105, 110, 107, 32, 71, 111, 32, 80, 84>>,  \* "Reolink Go PT"
    DoorbellNVR |-> <<68, 111, 111, 114, 98, 101, 108, 108, 32, 78, 86, 82>>,  \* "Doorbell NVR"
    NVRArgus |-> <<78, 86, 82, 32, 65, 114, 103, 117, 115>>,  \* "NVR Argus"
    ArgusTrackMix |-> <<65, 114, 103, 117, 115, 32, 84, 114, 97, 99, 107, 77, 105, 120>>,  \* "Argus TrackMix"
    TrackMixDuo |-> <<84, 114, 97, 99, 107, 77, 105, 120, 32, 68, 117, 111>>,  \* "TrackMix Duo"
    Empty |-> <<>>]  \* ""

NamedModels == {Model[k] : k \in DOMAIN Model}

\* strings.ToLower on ASCII (client.go:533)
ToLowerByte(b) == IF b >= 65 /\ b <= 90 THEN b + 32 ELSE b
ToLower(s) == [i \in 1..Len(s) |-> ToLowerByte(s[i])]

\* the upper-case spelling of a model string
ToUpperByte(b) == IF b >= 97 /\ b <= 122 THEN b - 32 ELSE b
ToUpper(s) == [i \in 1..Len(s) |-> ToUpperByte(s[i])]

\* every named model as reported, in lower case and in upper case
ModelStrings == NamedModels \cup {ToLower(m) : m \in NamedModels} \cup {ToUpper(m) : m \in NamedModels}

\* the model strings of the devices the session talks to
DeviceModels == {Model.RLC_810A, Model.RLNK_410}

\* the bytes of the short strings: a, A, b, "-" and CR
ShortBytes == {97, 65, 98, 45, 13}
ShortStrings == UNION {[1..n -> ShortBytes] : n \in 0..MaxShort}
ShortNeedles == UNION {[1..n -> ShortBytes] : n \in 0..MaxNeedle}

\* strings.Contains
Contains(s, sub) ==
    \E i \in 0..(Len(s) - Len(sub)) : SubSeq(s, i + 1, i + Len(sub)) = sub

ContainsAny(s, subs) == \E k \in 1..Len(subs) : Contains(s, subs[k])

\* client.go:532-550
detectDeviceType(model) ==
    LET m == ToLower(model)
    IN IF Contains(m, Kw.doorbell) THEN "doorbell"
       ELSE IF Contains(m, Kw.nvr) \/ Contains(m, Kw.rlnk) THEN "nvr"
       ELSE IF Contains(m, Kw.argus) \/ Contains(m, Kw.lumus) THEN "battery_camera"
       ELSE IF Contains(m, Kw.trackmi) THEN "ptz_camera"
       ELSE IF Contains(m, Kw.duo) \/ Contains(m, Kw.floodlight) THEN "floodlight_camera"
       ELSE "camera"

\* client.go:559, 570, 581
nvrModels == <<Kw.nvr, Kw.rln8_410, Kw.rln16_410, Kw.rln36>>
batteryModels == <<Kw.argus, Kw.lumus, Kw.go, Kw.battery>>
noAIModels == <<Kw.rlc_410, Kw.rlc_420, Kw.e1_zoom, Kw.c1_pro>>

\* client.go:552-555
Client_isDoorbellModel(model) == Contains(ToLower(model), Kw.doorbell)

\* client.go:557-566
isNVRModel(model) == ContainsAny(ToLower(model), nvrModels)

\* client.go:568-577
Client_isBatteryModel(model) == ContainsAny(ToLower(model), batteryModels)

\* client.go:579-588
Client_hasAIDetection(model) == ~ContainsAny(ToLower(model), noAIModels)

\* client.go:479-482, 491: the flags ProbeCamera derives from the model
\* string and the channel count
Classification(model, count) ==
    [DeviceType |-> detectDeviceType(model),
     IsDoorbell |-> Client_isDoorbellModel(model),
     IsNVR |-> count > 1 \/ isNVRModel(model),
     IsBattery |-> Client_isBatteryModel(model),
     HasAIDetection |-> Client_hasAIDetection(model)]

\* b | 0x20 on a byte (camera.go:486)
Or20(b) == IF (b \div 32) % 2 = 1 THEN b ELSE b + 32

\* camera.go:483-488
RECURSIVE containsIgnoreCase(_, _)
containsIgnoreCase(s, substr) ==
    /\ Len(s) >= Len(substr)
    /\ \/ s = substr
       \/ /\ Len(s) > 0
          /\ Len(substr) > 0
          /\ Or20(s[1]) = Or20(substr[1])
          /\ containsIgnoreCase(Tail(s), Tail(substr))
       \/ /\ Len(s) > 0
          /\ containsIgnoreCase(Tail(s), substr)

\* camera.go:464, 475
keywords == <<Kw.argus, Kw.lumus, Kw.go, Kw.battery>>
noAI == <<Kw.rlc_410, Kw.rlc_420, Kw.e1_zoom, Kw.c1_pro>>

\* camera.go:459-461
isDoorbellModel(model) == containsIgnoreCase(model, Kw.doorbell)

\* camera.go:463-471
isBatteryModel(model) == \E k \in 1..Len(keywords) : containsIgnoreCase(model, keywords[k])

\* camera.go:473-481
hasAIDetection(model) == ~\E k \in 1..Len(noAI) : containsIgnoreCase(model, noAI[k])

-----------------------------------------------------------------------------
\* the devices and arguments of the registry commands
\* two hosts, as strings of bytes: "h" and "h_ch1", the second spelt like a
\* camera id of the first
Hosts == {<<104>>, <<104, 95, 99, 104, 49>>}
ChannelArgs == 0..MaxChannelArg
ProtocolArgs == {"", "hls", "webrtc"}

\* CameraConfig (main.go:89-98): Channel is 0 when the request omits it
CameraConfigs == [Host : Hosts, Channel : ChannelArgs, Protocol : ProtocolArgs]

\* the DeviceConfig parseConfig builds (main.go:387-405): Channels is never set
ParsedDevice(h) == [Host |-> h, Channels |-> << >>]

\* the "devices" of the configuration (README.md:71-90): each with its host
\* and, for some, the channels it lists
Configs ==
    {<< >>}
    \cup {<<[host |-> h, channels |-> c]>> : h \in Hosts, c \in {<< >>, <<0>>}}
    \cup {<<[host |-> g, channels |-> << >>], [host |-> h, channels |-> << >>]>> :
            g \in Hosts, h \in Hosts}

\* main.go:375-412
parseConfig(config) == [i \in 1..Len(config) |-> ParsedDevice(config[i].host)]

\* the decimal digits fmt.Sprintf writes for %d
RECURSIVE Itoa(_)
Itoa(n) ==
    IF n < 0 THEN <<45>> \o Itoa(0 - n)
    ELSE IF n < 10 THEN <<48 + n>>
    ELSE Itoa(n \div 10) \o <<48 + (n % 10)>>

\* main.go:441, 545   fmt.Sprintf("%s_ch%d", host, ch)
CameraID(host, ch) == host \o <<95, 99, 104>> \o Itoa(ch)
CameraIDs == {CameraID(h, ch) : h \in Hosts, ch \in ChannelArgs}

-----------------------------------------------------------------------------
(* Initial state: a Client fresh from NewClient, a Plugin fresh from        *)
(* NewPlugin                                                                *)

NoLogin == [kind |-> "none", t |-> 0, lease |-> << >>]
NoReq == [cmd |-> "none", tokenParam |-> FALSE, creds |-> FALSE, basic |-> FALSE]
NoProbe == [status |-> "none", infoRes |-> "none", abilityRes |-> "none", cancelled |-> FALSE,
            failedAfterCancel |-> FALSE, Model |-> << >>, DeviceType |-> "",
            IsDoorbell |-> FALSE, IsNVR |-> FALSE, IsBattery |-> FALSE, HasAIDetection |-> FALSE,
            ChannelCount |-> 0, Channels |-> << >>, fetched |-> << >>,
            HasPTZ |-> FALSE, HasTwoWayAudio |-> FALSE, HasAudioAlarm |-> FALSE]
NoTag == <<NoProc, 0>>
NoEns == [t |-> 0, last |-> NoLogin]
NoObs == [tokenBy |-> NoTag, expBy |-> NoTag]
NoPre == <<"", ZeroTime, FALSE>>
\* what a Login in progress holds: the token and lease of the response, its
\* outcome, what the probe got, and the failure of the HTTP endpoint that made
\* the last exchange go on to the HTTPS endpoint
NoLg == [name |-> "", lease |-> << >>, o |-> "none", basic |-> "none", fallback |-> "none"]

SessionInit ==
    /\ token = ""
    /\ tokenExp = ZeroTime
    /\ useBasicAuth = FALSE
    /\ mu = NoProc
    /\ now = 0
    /\ pc = [p \in Procs |-> "idle"]
    /\ op = [p \in Procs |-> "none"]
    /\ stage = [p \in Procs |-> "none"]
    /\ cmd = [p \in Procs |-> "none"]
    /\ caller = [p \in Procs |-> "none"]
    /\ lg = [p \in Procs |-> NoLg]
    /\ lres = [p \in Procs |-> "none"]
    /\ ares = [p \in Procs |-> "none"]
    /\ apay = [p \in Procs |-> NoPayload]
    /\ started = FALSE
    /\ shared = FALSE
    /\ probe = NoProbe
    /\ req = [p \in Procs |-> NoReq]
    /\ lastLogin = NoLogin
    /\ ens = [p \in Procs |-> NoEns]
    /\ nlogin = [p \in Procs |-> 0]
    /\ obs = [p \in Procs |-> NoObs]
    /\ pre = [p \in Procs |-> NoPre]
    /\ tokenBy = NoTag
    /\ expBy = NoTag
    /\ par = [p \in Procs |-> 0]

NoRun == [op |-> "none", pc |-> "idle", devices |-> << >>,
          cfg |-> [Host |-> << >>, Channel |-> 0, Protocol |-> ""], client |-> 0,
          ability |-> << >>, pending |-> << >>, res |-> "none", added |-> {}, dup |-> FALSE,
          conn |-> << >>]
NoCmd == [op |-> "none", id |-> << >>, res |-> "none", added |-> {}, dup |-> FALSE,
          conn |-> << >>, health |-> [state |-> "", online |-> 0, total |-> 0]]

\* NewPlugin (main.go:142-146): an empty map, no context
RegistryInit ==
    /\ cameras = << >>
    /\ pctx = "nil"
    /\ crashed = FALSE
    /\ run = NoRun
    /\ nextClient = 1
    /\ lastCmd = NoCmd

NoOut == [by |-> "none", DeviceType |-> "", IsDoorbell |-> FALSE, IsNVR |-> FALSE,
          IsBattery |-> FALSE, HasAIDetection |-> FALSE, contains |-> FALSE,
          ability |-> << >>, HasPTZ |-> FALSE, HasAudio |-> FALSE, HasTwoWayAudio |-> FALSE]

\* no classification under way
PureInit ==
    /\ mdl = << >>
    /\ needle = << >>
    /\ nch = 1
    /\ out = NoOut

\* no PTZ command handled yet (client.go:706-710, main.go:135-140)
NoPTZCmd == [Operation |-> "", Speed |-> 0, Preset |-> ""]
NoPTZ == [cmd |-> [Action |-> "", Direction |-> 0, Speed |-> 0, Preset |-> ""],
          arg |-> NoPTZCmd, res |-> "none", answer |-> "none"]

\* Plugin.mu unlocked
NoLock == [w |-> NoProc, r |-> {}]

\* no command under way, no lock held or asked for
NoOrd == [todo |-> [p \in Procs |-> << >>], held |-> [p \in Procs |-> << >>],
          asked |-> [p \in Procs |-> "none"]]

Init == SessionInit /\ RegistryInit /\ PureInit /\ ptz = NoPTZ /\ pmu = NoLock /\ ord = NoOrd

-----------------------------------------------------------------------------
(* Client.mu, a sync.RWMutex.  Readers hold it only within one step, so   *)
(* the state of the lock is its writer.                                    *)

\* c.mu.Lock() (client.go:143, 201)
LockFree(m) == m = NoProc

\* a read that does not take the lock
RLockFree_Unlocked(m) == TRUE

\* c.mu.RLock() (client.go:209, 435, 593)
RLockFree(m) == m = NoProc

Tag(p) == <<p, par[p]>>

\* the observations of one ensureToken/Login end with it
Forget(p) ==
    /\ ens' = [ens EXCEPT ![p] = NoEns]
    /\ nlogin' = [nlogin EXCEPT ![p] = 0]
    /\ obs' = [obs EXCEPT ![p] = NoObs]
    /\ pre' = [pre EXCEPT ![p] = NoPre]

\* a request made with a context that is cancelled fails in the transport
CtxOutcomes(c) == IF c = "live" THEN Outcomes ELSE {"transport"}

\* the context a goroutine passes to the Client: the probe's can be cancelled
\* by its caller (client.go:461)
CallerCtx(p) == IF op[p] = "probe" /\ probe.cancelled THEN "cancelled" ELSE "live"

\* entry of Login: the basic-auth probe comes first (client.go:76-81)
BeginLogin(p, who) ==
    /\ pc' = [pc EXCEPT ![p] = "tba"]
    /\ caller' = [caller EXCEPT ![p] = who]
    /\ lres' = [lres EXCEPT ![p] = "none"]
    /\ pre' = [pre EXCEPT ![p] = <<token, tokenExp, useBasicAuth>>]
    /\ par' = [par EXCEPT ![p] = 1 - par[p]]

\* entry of an API method: ensureToken comes first
BeginApi(p, c) ==
    /\ pc' = [pc EXCEPT ![p] = "ensure"]
    /\ cmd' = [cmd EXCEPT ![p] = c]
    /\ ares' = [ares EXCEPT ![p] = "none"]
    /\ apay' = [apay EXCEPT ![p] = NoPayload]
    /\ req' = [req EXCEPT ![p] = NoReq]

-----------------------------------------------------------------------------
(* Client.ensureToken and Client.Login *)

\* client.go:208-218
ensureToken(p) ==
    /\ pc[p] = "ensure"
    /\ RLockFree(mu)
    /\ LET need == NeedLogin(useBasicAuth, token, tokenExp, now)
       IN /\ ens' = [ens EXCEPT ![p] = [t |-> now, last |-> lastLogin]]
          /\ nlogin' = [nlogin EXCEPT ![p] = IF need THEN 1 ELSE 0]
          /\ obs' = [obs EXCEPT ![p] = [tokenBy |-> tokenBy, expBy |-> expBy]]
          /\ IF need
             THEN BeginLogin(p, "ensure")
             ELSE /\ pc' = [pc EXCEPT ![p] = "send"]
                  /\ UNCHANGED <<caller, lres, pre, par>>
    /\ UNCHANGED <<clientVars, now, op, stage, cmd, lg, ares, apay, started, shared, probe,
                   req, lastLogin, tokenBy, expBy>>
    /\ UNCHANGED nonSessionVars

\* client.go:153-198: the probe request, on the HTTP and then the HTTPS endpoint
tryBasicAuth(p) ==
    /\ pc[p] = "tba"
    /\ \E o1 \in CtxOutcomes(CallerCtx(p)) :
       \E o2 \in IF o1 = "transport" THEN CtxOutcomes(CallerCtx(p)) ELSE {"none"} :
         LET o == BasicExchange(o1, o2)
         IN /\ pc' = [pc EXCEPT ![p] = IF BasicAuthAccepted(o) THEN "tba_set" ELSE "tok"]
            /\ lg' = [lg EXCEPT ![p] =
                         [NoLg EXCEPT !.basic = IF o \in {"bad_value", "ok"}
                                                THEN "code0" ELSE "failed",
                                      !.fallback = IF o1 = "transport"
                                                   THEN o1 ELSE "none"]]
    /\ UNCHANGED <<clientVars, req, now, op, stage, cmd, caller, lres, ares, apay, started, shared,
                   probe, lastLogin, ens, nlogin, obs, pre, tokenBy, expBy, par>>
    /\ UNCHANGED nonSessionVars

\* client.go:200-205 and Login's return at client.go:81-83
tryBasicAuthStore(p) ==
    /\ pc[p] = "tba_set"
    /\ LockFree(mu)
    /\ useBasicAuth' = TRUE
    /\ lastLogin' = [kind |-> "basic", t |-> now, lease |-> << >>]
    /\ lres' = [lres EXCEPT ![p] = "nil"]
    /\ lg' = [lg EXCEPT ![p] = NoLg]
    /\ pc' = [pc EXCEPT ![p] = "login_ret"]
    /\ UNCHANGED <<token, tokenExp, mu, now, op, stage, cmd, caller, ares, apay, started,
                   shared, probe, req, ens, nlogin, obs, pre, tokenBy, expBy, par>>
    /\ UNCHANGED nonSessionVars

\* client.go:88-141: the Login command, on the HTTP and then the HTTPS endpoint
LoginRequest(p) ==
    /\ pc[p] = "tok"
    /\ \E o1 \in CtxOutcomes(CallerCtx(p)) :
       \E o2 \in IF DoRequestURLFails(o1) THEN CtxOutcomes(CallerCtx(p)) ELSE {"none"} :
         LET o == LoginExchange(o1, o2)
             fb == IF DoRequestURLFails(o1) THEN o1 ELSE "none"
         IN IF LoginStores(o)
            THEN /\ \E name \in TokenNames, lease \in Leases :
                      lg' = [lg EXCEPT ![p] = [name |-> name, lease |-> lease, o |-> o,
                                               basic |-> lg[p].basic, fallback |-> fb]]
                 /\ pc' = [pc EXCEPT ![p] = "lg_lock"]
                 /\ UNCHANGED lres
            ELSE /\ lres' = [lres EXCEPT ![p] = LoginResult(o)]
                 /\ pc' = [pc EXCEPT ![p] = "login_ret"]
                 /\ lg' = [lg EXCEPT ![p] = [NoLg EXCEPT !.fallback = fb]]
    /\ UNCHANGED <<clientVars, req, now, op, stage, cmd, caller, ares, apay, started, shared, probe,
                   lastLogin, ens, nlogin, obs, pre, tokenBy, expBy, par>>
    /\ UNCHANGED nonSessionVars

\* client.go:143
LoginLock(p) ==
    /\ pc[p] = "lg_lock"
    /\ LockFree(mu)
    /\ mu' = p
    /\ pc' = [pc EXCEPT ![p] = "lg_tok"]
    /\ UNCHANGED <<token, tokenExp, useBasicAuth, now, op, stage, cmd, caller, lg, lres, ares,
                   apay, req, started, shared, probe, obsVars>>
    /\ UNCHANGED nonSessionVars

\* client.go:144
LoginStoreToken(p) ==
    /\ pc[p] = "lg_tok"
    /\ token' = lg[p].name
    /\ tokenBy' = Tag(p)
    /\ pc' = [pc EXCEPT ![p] = "lg_exp"]
    /\ UNCHANGED <<tokenExp, useBasicAuth, mu, now, op, stage, cmd, caller, lg, lres, ares, apay,
                   started, shared, probe, req, lastLogin, ens, nlogin, obs, pre, expBy, par>>
    /\ UNCHANGED nonSessionVars

\* client.go:145-149
LoginStoreExp(p) ==
    /\ pc[p] = "lg_exp"
    /\ tokenExp' = TokenExpiry(now, LeaseTime(lg[p].lease))
    /\ expBy' = Tag(p)
    /\ mu' = NoProc
    /\ lastLogin' = [kind |-> "token", t |-> now, lease |-> lg[p].lease]
    /\ lres' = [lres EXCEPT ![p] = LoginResult(lg[p].o)]
    /\ lg' = [lg EXCEPT ![p] = NoLg]
    /\ pc' = [pc EXCEPT ![p] = "login_ret"]
    /\ UNCHANGED <<token, useBasicAuth, now, op, stage, cmd, caller, ares, apay, started,
                   shared, probe, req, ens, nlogin, obs, pre, tokenBy, par>>
    /\ UNCHANGED nonSessionVars

\* the return of Login into ensureToken (client.go:214-216), and so out of
\* the API method when Login failed (client.go:222, 276, 336, 399, 431)
ensureTokenReturn(p) ==
    /\ pc[p] = "login_ret"
    /\ caller[p] = "ensure"
    /\ IF lres[p] = "nil"
       THEN /\ pc' = [pc EXCEPT ![p] = "send"]
            /\ UNCHANGED ares
       ELSE /\ pc' = [pc EXCEPT ![p] = "ret"]
            /\ ares' = [ares EXCEPT ![p] = "err"]
    /\ lres' = [lres EXCEPT ![p] = "none"]
    /\ caller' = [caller EXCEPT ![p] = "none"]
    /\ lg' = [lg EXCEPT ![p] = NoLg]
    /\ Forget(p)
    /\ UNCHANGED <<clientVars, now, op, stage, cmd, apay, started, shared, probe,
                   req, lastLogin, tokenBy, expBy, par>>
    /\ UNCHANGED nonSessionVars

-----------------------------------------------------------------------------
(* The API request of GetDeviceInfo, GetAbility, GetEncoderConfig,         *)
(* PTZControl (through doRequest) and of GetSnapshot                       *)

Payloads(c, o) ==
    IF c = "PtzCtrl" THEN {[NoPayload EXCEPT !.resp = o]}
    ELSE IF o # "ok" THEN {NoPayload}
    ELSE CASE c = "GetDevInfo" -> {[NoPayload EXCEPT !.channelNum = n, !.model = m] :
                                      n \in ChannelNums, m \in DeviceModels}
           [] c = "GetAbility" -> {[NoPayload EXCEPT !.ability = a] : a \in Abilities}
           [] c = "GetEnc" -> {[NoPayload EXCEPT !.enc = e] : e \in EncoderConfigs}
           [] OTHER -> {NoPayload}

\* client.go:590-606 with the method's checks of the response
\* (client.go:232-271, 290-331, 348-372, 417-426)
doRequest(p) ==
    /\ pc[p] = "send"
    /\ cmd[p] # "Snap"
    /\ RLockFree(mu)
    /\ LET url == RequestURL(useBasicAuth, token)
       IN req' = [req EXCEPT ![p] = [cmd |-> cmd[p], tokenParam |-> url.tokenParam,
                                     creds |-> url.creds, basic |-> useBasicAuth]]
    /\ \E o \in CtxOutcomes(CallerCtx(p)) :
         /\ ares' = [ares EXCEPT ![p] = ApiResult(cmd[p], o)]
         /\ \E pl \in Payloads(cmd[p], o) : apay' = [apay EXCEPT ![p] = pl]
    /\ pc' = [pc EXCEPT ![p] = "ret"]
    /\ Forget(p)
    /\ UNCHANGED <<clientVars, now, op, stage, cmd, caller, lg, lres, started, shared, probe,
                   lastLogin, tokenBy, expBy, par>>
    /\ UNCHANGED nonSessionVars

\* client.go:435-457
GetSnapshot(p) ==
    /\ pc[p] = "send"
    /\ cmd[p] = "Snap"
    /\ RLockFree(mu)
    /\ LET url == SnapshotURL(token)
       IN req' = [req EXCEPT ![p] = [cmd |-> "Snap", tokenParam |-> url.tokenParam,
                                     creds |-> url.creds, basic |-> useBasicAuth]]
    /\ \E o \in Outcomes : ares' = [ares EXCEPT ![p] = ApiResult("Snap", o)]
    /\ pc' = [pc EXCEPT ![p] = "ret"]
    /\ Forget(p)
    /\ UNCHANGED <<clientVars, now, op, stage, cmd, caller, lg, lres, apay, started, shared,
                   probe, lastLogin, tokenBy, expBy, par>>
    /\ UNCHANGED nonSessionVars

-----------------------------------------------------------------------------
(* Plugin.connectDevice, as far as it uses its new Client (main.go:415-431) *)

\* the goroutine leaves the Client; a Client that was not registered is dropped
Leave(p) ==
    /\ pc' = [pc EXCEPT ![p] = "idle"]
    /\ op' = [op EXCEPT ![p] = "none"]
    /\ stage' = [stage EXCEPT ![p] = "none"]
    /\ cmd' = [cmd EXCEPT ![p] = "none"]
    /\ ares' = [ares EXCEPT ![p] = "none"]
    /\ apay' = [apay EXCEPT ![p] = NoPayload]
    /\ req' = [req EXCEPT ![p] = NoReq]

\* main.go:415-420
connectDevice(p) ==
    /\ p = Owner
    /\ ~started
    /\ pc[p] = "idle"
    /\ started' = TRUE
    /\ op' = [op EXCEPT ![p] = "connect"]
    /\ stage' = [stage EXCEPT ![p] = "login"]
    /\ BeginLogin(p, "connect")
    /\ UNCHANGED <<clientVars, now, cmd, lg, ares, apay, shared, probe, req, lastLogin, ens,
                   nlogin, obs, tokenBy, expBy>>
    /\ UNCHANGED nonSessionVars

\* main.go:420-424
connectDeviceLogin(p) ==
    /\ pc[p] = "login_ret"
    /\ caller[p] = "connect"
    /\ lres' = [lres EXCEPT ![p] = "none"]
    /\ caller' = [caller EXCEPT ![p] = "none"]
    /\ IF lres[p] = "nil"
       THEN /\ stage' = [stage EXCEPT ![p] = "devinfo"]
            /\ BeginApi(p, "GetDevInfo")
            /\ UNCHANGED op
       ELSE Leave(p)
    /\ lg' = [lg EXCEPT ![p] = NoLg]
    /\ Forget(p)
    /\ UNCHANGED <<clientVars, now, started, shared, probe,
                   lastLogin, tokenBy, expBy, par>>
    /\ UNCHANGED nonSessionVars

\* main.go:424-431; with the ability fetched or not (main.go:433-438) the
\* cameras are made and p.mu.Lock() is taken for the insertion (main.go:455)
connectDeviceInfo(p) ==
    /\ pc[p] = "ret"
    /\ op[p] = "connect"
    /\ IF stage[p] = "devinfo" /\ ares[p] = "ok"
       THEN /\ stage' = [stage EXCEPT ![p] = "ability"]
            /\ BeginApi(p, "GetAbility")
            /\ UNCHANGED <<op, shared, pmu>>
       ELSE IF stage[p] = "ability"
       THEN /\ pmu = NoLock
            /\ pmu' = [pmu EXCEPT !.w = p]
            /\ pc' = [pc EXCEPT ![p] = "insert"]
            /\ stage' = [stage EXCEPT ![p] = "insert"]
            /\ UNCHANGED <<op, cmd, ares, apay, req, shared>>
       ELSE /\ Leave(p)
            /\ shared' = FALSE
            /\ UNCHANGED pmu
    /\ UNCHANGED <<clientVars, now, caller, lg, lres, started, probe, obsVars>>
    /\ UNCHANGED <<registryVars, pureVars, ptz, ord>>

\* main.go:455-457: p.cameras[cameraID] = cam; p.mu.Unlock().  The cameras
\* made from the Client are registered and other goroutines can reach it
connectDeviceInsert(p) ==
    /\ pc[p] = "insert"
    /\ pmu.w = p
    /\ shared' = TRUE
    /\ pmu' = NoLock
    /\ Leave(p)
    /\ UNCHANGED <<clientVars, now, caller, lg, lres, started, probe, obsVars>>
    /\ UNCHANGED <<registryVars, pureVars, ptz, ord>>

-----------------------------------------------------------------------------
(* Plugin.PTZControl and Plugin.GetSnapshot on a registered Client          *)

\* camera.go:389, 393
Command(p, c) ==
    /\ shared
    /\ pc[p] = "idle"
    /\ op' = [op EXCEPT ![p] = "cmd"]
    /\ BeginApi(p, c)
    /\ UNCHANGED <<clientVars, now, stage, caller, lg, lres, started, shared, probe, obsVars>>
    /\ UNCHANGED nonSessionVars

CommandReturn(p) ==
    /\ pc[p] = "ret"
    /\ op[p] = "cmd"
    /\ Leave(p)
    /\ UNCHANGED <<clientVars, now, caller, lg, lres, started, shared, probe, obsVars>>
    /\ UNCHANGED nonSessionVars

\* main.go:640-642, 652-654: p.mu.RLock(); cam, ok := p.cameras[cameraID]
PluginRLock(p, c) ==
    /\ shared
    /\ pc[p] = "idle"
    /\ pmu.w = NoProc
    /\ pmu' = [pmu EXCEPT !.r = @ \cup {p}]
    /\ pc' = [pc EXCEPT ![p] = "lookup"]
    /\ op' = [op EXCEPT ![p] = "cmd"]
    /\ cmd' = [cmd EXCEPT ![p] = c]
    /\ UNCHANGED <<clientVars, now, stage, caller, lg, lres, ares, apay, req, started, shared,
                   probe, obsVars>>
    /\ UNCHANGED <<registryVars, pureVars, ptz, ord>>

\* the shared lock released by a defer, at the return of the command
PluginRUnlock_Deferred(p) ==
    /\ pc[p] = "lookup"
    /\ p \in pmu.r
    /\ pmu' = pmu
    /\ BeginApi(p, cmd[p])
    /\ UNCHANGED <<clientVars, now, op, stage, caller, lg, lres, started, shared, probe, obsVars>>
    /\ UNCHANGED <<registryVars, pureVars, ptz, ord>>

\* main.go:643-649, 655-661: p.mu.RUnlock(), and then cam.PTZControl or
\* cam.GetSnapshot, which call the Client (camera.go:389, 393)
PluginRUnlock(p) ==
    /\ pc[p] = "lookup"
    /\ p \in pmu.r
    /\ pmu' = [pmu EXCEPT !.r = @ \ {p}]
    /\ BeginApi(p, cmd[p])
    /\ UNCHANGED <<clientVars, now, op, stage, caller, lg, lres, started, shared, probe, obsVars>>
    /\ UNCHANGED <<registryVars, pureVars, ptz, ord>>

-----------------------------------------------------------------------------
(* Camera.PTZControl on a registered Client (camera.go:354-390)             *)

\* main.go:135-140; Speed in thousandths
PTZCommands ==
    [Action : {"pan", "tilt", "zoom", "stop", "preset", "unknown_action", ""},
     Direction : {-1, 0, 1}, Speed : {0}, Preset : {"", "home"}]
    \cup [Action : {"pan"}, Direction : {1}, Speed : {-500, 10, 500, 700, 1000},
          Preset : {""}]

\* a direction of 0 taken for a negative one
PTZOperation_ZeroIsNegative(action, direction) ==
    CASE action = "pan" -> IF direction <= 0 THEN "Left" ELSE "Right"
      [] action = "tilt" -> IF direction <= 0 THEN "Down" ELSE "Up"
      [] action = "zoom" -> IF direction <= 0 THEN "ZoomDec" ELSE "ZoomInc"
      [] action = "stop" -> "Stop"
      [] action = "preset" -> "ToPos"

\* camera.go:357-379
PTZOperation(action, direction) ==
    CASE action = "pan" -> IF direction < 0 THEN "Left" ELSE "Right"
      [] action = "tilt" -> IF direction < 0 THEN "Down" ELSE "Up"
      [] action = "zoom" -> IF direction < 0 THEN "ZoomDec" ELSE "ZoomInc"
      [] action = "stop" -> "Stop"
      [] action = "preset" -> "ToPos"

\* camera.go:355, 385-387: int() drops the fraction of the product
PTZSpeed(speed) ==
    IF speed > 0 THEN (speed * VendorScale) \div SpeedScale ELSE DefaultSpeed

\* the PTZCmd handed to Client.PTZControl (camera.go:355-387), which puts its
\* Operation, Speed and, if not empty, Preset in the request (client.go:403-415)
PTZCmdOf(c) ==
    [Operation |-> PTZOperation(c.Action, c.Direction),
     Speed |-> PTZSpeed(c.Speed),
     Preset |-> IF c.Action = "preset" THEN c.Preset ELSE ""]

\* camera.go:354-390: the default case returns before the Client is called
CameraPTZControl(p, c) ==
    /\ shared
    /\ pc[p] = "idle"
    /\ IF c.Action \in {"pan", "tilt", "zoom", "stop", "preset"}
       THEN /\ ptz' = [cmd |-> c, arg |-> PTZCmdOf(c), res |-> "pending", answer |-> "none"]
            /\ op' = [op EXCEPT ![p] = "ptz"]
            /\ BeginApi(p, "PtzCtrl")
       ELSE /\ ptz' = [cmd |-> c, arg |-> NoPTZCmd, res |-> "unknown_action",
                        answer |-> "none"]
            /\ UNCHANGED <<pc, op, cmd, ares, apay, req>>
    /\ UNCHANGED <<clientVars, now, stage, caller, lg, lres, started, shared, probe, obsVars>>
    /\ UNCHANGED <<registryVars, pureVars, pmu, ord>>

\* camera.go:389, with the error of ensureToken or of the request
\* (client.go:399-401, 417-426)
CameraPTZReturn(p) ==
    /\ pc[p] = "ret"
    /\ op[p] = "ptz"
    /\ ptz' = [ptz EXCEPT !.res = IF ares[p] = "ok" THEN "nil" ELSE "err",
                          !.answer = apay[p].resp]
    /\ Leave(p)
    /\ UNCHANGED <<clientVars, now, caller, lg, lres, started, shared, probe, obsVars>>
    /\ UNCHANGED <<registryVars, pureVars, pmu, ord>>

-----------------------------------------------------------------------------
(* Client.ProbeCamera on a new Client (main.go:663-669, client.go:461-514)  *)

\* channels numbered from 1, as the RTSP path numbers them
ChannelEntry_OneBased(ch, res, enc) ==
    [Channel |-> ch + 1,
     MainStream |-> IF res = "ok" THEN enc.MainStream ELSE ZeroStream,
     SubStream |-> IF res = "ok" THEN enc.SubStream ELSE ZeroStream,
     Codec |-> IF res = "ok" THEN enc.MainStream.codec ELSE ""]

\* client.go:494-503
ChannelEntry(ch, res, enc) ==
    [Channel |-> ch,
     MainStream |-> IF res = "ok" THEN enc.MainStream ELSE ZeroStream,
     SubStream |-> IF res = "ok" THEN enc.SubStream ELSE ZeroStream,
     Codec |-> IF res = "ok" THEN enc.MainStream.codec ELSE ""]

\* the flags of a probe in which a failed ability fetch counts as full support
AbilityFlags_DefaultTrue(res, ab) ==
    IF res = "ok"
    THEN [HasPTZ |-> ab.PTZ \/ ab.PanTilt, HasTwoWayAudio |-> ab.TwoWayAudio,
          HasAudioAlarm |-> ab.AudioAlarm]
    ELSE [HasPTZ |-> TRUE, HasTwoWayAudio |-> TRUE, HasAudioAlarm |-> TRUE]

\* client.go:484-489
AbilityFlags(res, ab) ==
    IF res = "ok"
    THEN [HasPTZ |-> ab.PTZ \/ ab.PanTilt, HasTwoWayAudio |-> ab.TwoWayAudio,
          HasAudioAlarm |-> ab.AudioAlarm]
    ELSE [HasPTZ |-> FALSE, HasTwoWayAudio |-> FALSE, HasAudioAlarm |-> FALSE]

\* client.go:493
MoreChannels(ch, count) == ch < count

\* client.go:462-468
ProbeCamera(p) ==
    /\ p = Owner
    /\ ~started
    /\ pc[p] = "idle"
    /\ started' = TRUE
    /\ op' = [op EXCEPT ![p] = "probe"]
    /\ stage' = [stage EXCEPT ![p] = "devinfo"]
    /\ probe' = [NoProbe EXCEPT !.status = "running"]
    /\ BeginApi(p, "GetDevInfo")
    /\ UNCHANGED <<clientVars, now, caller, lg, lres, shared, obsVars>>
    /\ UNCHANGED nonSessionVars

\* client.go:468-484
ProbeCameraInfo(p) ==
    /\ pc[p] = "ret"
    /\ op[p] = "probe"
    /\ stage[p] = "devinfo"
    /\ IF ares[p] = "ok"
       THEN /\ LET count == ChannelCountOf(apay[p].channelNum)
                   c == Classification(apay[p].model, count)
               IN probe' = [probe EXCEPT !.infoRes = "ok", !.Model = apay[p].model,
                                         !.ChannelCount = count,
                                         !.DeviceType = c.DeviceType,
                                         !.IsDoorbell = c.IsDoorbell,
                                         !.IsNVR = c.IsNVR,
                                         !.IsBattery = c.IsBattery,
                                         !.HasAIDetection = c.HasAIDetection]
            /\ stage' = [stage EXCEPT ![p] = "ability"]
            /\ BeginApi(p, "GetAbility")
            /\ UNCHANGED op
       ELSE /\ probe' = [probe EXCEPT !.status = "err", !.infoRes = "err"]
            /\ Leave(p)
    /\ UNCHANGED <<clientVars, now, caller, lg, lres, started, shared, obsVars>>
    /\ UNCHANGED nonSessionVars

\* client.go:484-498
ProbeCameraAbility(p) ==
    /\ pc[p] = "ret"
    /\ op[p] = "probe"
    /\ stage[p] = "ability"
    /\ LET f == AbilityFlags(ares[p], apay[p].ability)
           got == [probe EXCEPT !.abilityRes = ares[p],
                                !.failedAfterCancel = @ \/ (ares[p] = "err" /\ probe.cancelled),
                                !.HasPTZ = f.HasPTZ,
                                !.HasTwoWayAudio = f.HasTwoWayAudio,
                                !.HasAudioAlarm = f.HasAudioAlarm]
       IN IF MoreChannels(0, probe.ChannelCount)
          THEN /\ probe' = got
               /\ stage' = [stage EXCEPT ![p] = "enc"]
               /\ BeginApi(p, "GetEnc")
               /\ UNCHANGED op
          ELSE /\ probe' = [got EXCEPT !.status = "ok"]
               /\ Leave(p)
    /\ UNCHANGED <<clientVars, now, caller, lg, lres, started, shared, obsVars>>
    /\ UNCHANGED nonSessionVars

\* client.go:493-513
ProbeCameraChannel(p) ==
    /\ pc[p] = "ret"
    /\ op[p] = "probe"
    /\ stage[p] = "enc"
    /\ LET ch == Len(probe.Channels)
           got == [probe EXCEPT !.failedAfterCancel = @ \/ (ares[p] = "err" /\ probe.cancelled),
                                !.Channels = Append(@, ChannelEntry(ch, ares[p], apay[p].enc)),
                                !.fetched = Append(@, [res |-> ares[p], enc |-> apay[p].enc])]
       IN IF MoreChannels(ch + 1, probe.ChannelCount)
          THEN /\ probe' = got
               /\ BeginApi(p, "GetEnc")
               /\ UNCHANGED <<op, stage>>
          ELSE /\ probe' = [got EXCEPT !.status = "ok"]
               /\ Leave(p)
    /\ UNCHANGED <<clientVars, now, caller, lg, lres, started, shared, obsVars>>
    /\ UNCHANGED nonSessionVars

\* the caller of ProbeCamera cancels the context it passed (client.go:461)
CancelProbe ==
    /\ probe.status = "running"
    /\ ~probe.cancelled
    /\ probe' = [probe EXCEPT !.cancelled = TRUE]
    /\ UNCHANGED <<clientVars, now, procVars, started, shared, obsVars>>
    /\ UNCHANGED nonSessionVars

-----------------------------------------------------------------------------
\* time passes
Tick(ts) ==
    /\ \E t \in ts : t > now /\ now' = t
    /\ UNCHANGED <<clientVars, procVars, started, shared, probe, obsVars>>
    /\ UNCHANGED nonSessionVars

Step(p) ==
    \/ connectDevice(p)
    \/ connectDeviceLogin(p)
    \/ connectDeviceInfo(p)
    \/ connectDeviceInsert(p)
    \/ ProbeCamera(p)
    \/ ProbeCameraInfo(p)
    \/ ProbeCameraAbility(p)
    \/ ProbeCameraChannel(p)
    \/ \E c \in {"PtzCtrl", "Snap"} : Command(p, c)
    \/ CommandReturn(p)
    \/ ensureToken(p)
    \/ tryBasicAuth(p)
    \/ tryBasicAuthStore(p)
    \/ LoginRequest(p)
    \/ LoginLock(p)
    \/ LoginStoreToken(p)
    \/ LoginStoreExp(p)
    \/ ensureTokenReturn(p)
    \/ doRequest(p)
    \/ GetSnapshot(p)

Next == Tick({LateBase + MaxLate}) \/ CancelProbe \/ \E p \in Procs : Step(p)

Spec == Init /\ [][Next]_vars

NextSeq == Tick(Times) \/ CancelProbe \/ Step(Owner)

SpecSeq == Init /\ [][NextSeq]_vars

\* one goroutine that connects the device and then sends PTZ commands to its
\* Camera
NextCamera ==
    \/ Tick(Times)
    \/ connectDevice(Owner)
    \/ connectDeviceLogin(Owner)
    \/ connectDeviceInfo(Owner)
    \/ connectDeviceInsert(Owner)
    \/ \E c \in PTZCommands : CameraPTZControl(Owner, c)
    \/ CameraPTZReturn(Owner)
    \/ ensureToken(Owner)
    \/ tryBasicAuth(Owner)
    \/ tryBasicAuthStore(Owner)
    \/ LoginRequest(Owner)
    \/ LoginLock(Owner)
    \/ LoginStoreToken(Owner)
    \/ LoginStoreExp(Owner)
    \/ ensureTokenReturn(Owner)
    \/ doRequest(Owner)

SpecCamera == Init /\ [][NextCamera]_vars

\* goroutines that connect the device and then run ptz_control and
\* get_snapshot, with the steps that take and release Plugin.mu
NextLock ==
    \/ Tick({LateBase + MaxLate})
    \/ \E p \in Procs :
         \/ connectDevice(p)
         \/ connectDeviceLogin(p)
         \/ connectDeviceInfo(p)
         \/ connectDeviceInsert(p)
         \/ \E c \in {"PtzCtrl", "Snap"} : PluginRLock(p, c)
         \/ PluginRUnlock(p)
         \/ CommandReturn(p)
         \/ ensureToken(p)
         \/ tryBasicAuth(p)
         \/ tryBasicAuthStore(p)
         \/ LoginRequest(p)
         \/ LoginLock(p)
         \/ LoginStoreToken(p)
         \/ LoginStoreExp(p)
         \/ ensureTokenReturn(p)
         \/ doRequest(p)
         \/ GetSnapshot(p)

SpecLock == Init /\ [][NextLock]_vars

-----------------------------------------------------------------------------
(* The order in which the commands take Plugin.mu, Camera.mu and Client.mu, *)
(* all three sync.RWMutex                                                   *)

\* health holding Plugin.mu for reading while it calls a method that takes it
\* for reading again
LockScript_NestedRLock(c) ==
    CASE c = "health" ->
           <<<<"RLock", "Plugin">>, <<"RLock", "Plugin">>, <<"RLock", "Camera">>,
             <<"RUnlock", "Camera">>, <<"RUnlock", "Plugin">>, <<"RUnlock", "Plugin">>>>
      [] c = "add_camera" ->
           <<<<"Lock", "Plugin">>, <<"Unlock", "Plugin">>,
             <<"RLock", "Plugin">>, <<"Lock", "Camera">>, <<"Unlock", "Camera">>,
             <<"RUnlock", "Plugin">>,
             <<"RLock", "Plugin">>, <<"RLock", "Camera">>, <<"RUnlock", "Camera">>,
             <<"RUnlock", "Plugin">>>>
      [] c = "remove_camera" -> <<<<"Lock", "Plugin">>, <<"Unlock", "Plugin">>>>
      [] c = "set_protocol" ->
           <<<<"RLock", "Plugin">>, <<"RUnlock", "Plugin">>,
             <<"Lock", "Camera">>, <<"Unlock", "Camera">>>>
      [] c = "ptz_control" ->
           <<<<"RLock", "Plugin">>, <<"RUnlock", "Plugin">>,
             <<"RLock", "Client">>, <<"RUnlock", "Client">>,
             <<"Lock", "Client">>, <<"Unlock", "Client">>,
             <<"RLock", "Client">>, <<"RUnlock", "Client">>>>

\* the lock operations of a command, in the order of the code:
\*   health, and alike get_camera, list_cameras, get_capabilities and
\*     get_protocols: Plugin.mu read-locked to the return, a getter of the
\*     Camera inside (main.go:473-485, 596-603; camera.go:251-253, 284-286)
\*   add_camera: the insertion of connectDevice (main.go:455-457), SetProtocol
\*     under the read lock (main.go:548-554; camera.go:241-243), GetCamera
\*     (main.go:556); the Client and Camera made by connectDevice are not yet
\*     known to another goroutine when it locks them
\*   remove_camera: main.go:559-561
\*   set_protocol, and alike update_camera: the lookup, then SetProtocol
\*     (main.go:811-813, 623-625; camera.go:241-243)
\*   ptz_control, and alike get_snapshot and get_ptz_presets: the lookup
\*     (main.go:640-642), then in the Client ensureToken, Login and doRequest
\*     (client.go:209-212, 143-149, 593-596)
LockScript(c) ==
    CASE c = "health" ->
           <<<<"RLock", "Plugin">>, <<"RLock", "Camera">>, <<"RUnlock", "Camera">>,
             <<"RUnlock", "Plugin">>>>
      [] c = "add_camera" ->
           <<<<"Lock", "Plugin">>, <<"Unlock", "Plugin">>,
             <<"RLock", "Plugin">>, <<"Lock", "Camera">>, <<"Unlock", "Camera">>,
             <<"RUnlock", "Plugin">>,
             <<"RLock", "Plugin">>, <<"RLock", "Camera">>, <<"RUnlock", "Camera">>,
             <<"RUnlock", "Plugin">>>>
      [] c = "remove_camera" -> <<<<"Lock", "Plugin">>, <<"Unlock", "Plugin">>>>
      [] c = "set_protocol" ->
           <<<<"RLock", "Plugin">>, <<"RUnlock", "Plugin">>,
             <<"Lock", "Camera">>, <<"Unlock", "Camera">>>>
      [] c = "ptz_control" ->
           <<<<"RLock", "Plugin">>, <<"RUnlock", "Plugin">>,
             <<"RLock", "Client">>, <<"RUnlock", "Client">>,
             <<"Lock", "Client">>, <<"Unlock", "Client">>,
             <<"RLock", "Client">>, <<"RUnlock", "Client">>>>

\* a goroutine starts a command
OrderBegin(p, c) ==
    /\ ord.todo[p] = << >>
    /\ ord' = [ord EXCEPT !.todo[p] = LockScript(c)]
    /\ UNCHANGED <<sessionVars, registryVars, pureVars, ptz, pmu>>

\* the next lock operation of the goroutine, as sync.RWMutex does it. Lock
\* first takes the writers' mutex (one writer at a time makes itself known),
\* then waits until no reader holds the lock. RLock succeeds when no writer
\* holds the lock or has made itself known, and otherwise parks the reader;
\* Unlock hands the lock to every parked reader before the next writer can
\* make itself known.
OrderStep(p) ==
    /\ ord.todo[p] # << >>
    /\ LET o == Head(ord.todo[p])
           m == o[2]
           holders == {q \in Procs : \E i \in 1..Len(ord.held[q]) : ord.held[q][i][1] = m}
           writers == {q \in Procs : \E i \in 1..Len(ord.held[q]) : ord.held[q][i] = <<m, "w">>}
           known == {q \in Procs : /\ ord.asked[q] = m
                                   /\ ord.todo[q] # << >>
                                   /\ Head(ord.todo[q])[1] = "Lock"}
           parked == {q \in Procs : /\ ord.asked[q] = m
                                    /\ ord.todo[q] # << >>
                                    /\ Head(ord.todo[q])[1] = "RLock"}
           last == IF \E j \in 1..Len(ord.held[p]) : ord.held[p][j][1] = m
                   THEN CHOOSE j \in 1..Len(ord.held[p]) :
                            /\ ord.held[p][j][1] = m
                            /\ \A k \in (j + 1)..Len(ord.held[p]) : ord.held[p][k][1] # m
                   ELSE 0
           released == [k \in 1..(Len(ord.held[p]) - 1) |->
                          IF k < last THEN ord.held[p][k] ELSE ord.held[p][k + 1]]
       IN CASE o[1] = "RLock" /\ writers = {} /\ known = {} ->
                 /\ ord.asked[p] = "none"
                 /\ ord' = [ord EXCEPT !.held[p] = Append(@, <<m, "r">>), !.todo[p] = Tail(@)]
            [] o[1] = "RLock" /\ (writers # {} \/ known # {}) ->
                 /\ ord.asked[p] = "none"
                 /\ ord' = [ord EXCEPT !.asked[p] = m]
            [] o[1] = "Lock" /\ ord.asked[p] # m ->
                 /\ writers = {}
                 /\ known = {}
                 /\ ord' = [ord EXCEPT !.asked[p] = m]
            [] o[1] = "Lock" /\ ord.asked[p] = m ->
                 /\ holders = {}
                 /\ ord' = [ord EXCEPT !.held[p] = Append(@, <<m, "w">>), !.asked[p] = "none",
                                       !.todo[p] = Tail(@)]
            [] o[1] = "RUnlock" ->
                 /\ last > 0
                 /\ ord' = [ord EXCEPT !.held[p] = released, !.todo[p] = Tail(@)]
            [] o[1] = "Unlock" ->
                 /\ last > 0
                 /\ ord' = [todo |-> [q \in Procs |-> IF q = p \/ q \in parked
                                                      THEN Tail(ord.todo[q]) ELSE ord.todo[q]],
                            held |-> [q \in Procs |->
                                        IF q = p THEN released
                                        ELSE IF q \in parked
                                             THEN Append(ord.held[q], <<m, "r">>)
                                             ELSE ord.held[q]],
                            asked |-> [q \in Procs |-> IF q \in parked
                                                       THEN "none" ELSE ord.asked[q]]]
    /\ UNCHANGED <<sessionVars, registryVars, pureVars, ptz, pmu>>

NextOrder ==
    \E p \in Procs :
        \/ \E c \in {"health", "add_camera", "remove_camera", "set_protocol", "ptz_control"} :
             OrderBegin(p, c)
        \/ OrderStep(p)

\* a goroutine that can take its next step again and again takes it: the
\* scheduler runs every goroutine, and a sync.RWMutex hands the lock to a
\* goroutine that waits for it
SpecOrder == Init /\ [][NextOrder]_vars /\ \A p \in Procs : SF_vars(OrderStep(p))

-----------------------------------------------------------------------------
(* Plugin: the camera registry.  main reads and handles one request at a   *)
(* time (main.go:26-42), so a command runs to its end before the next.     *)

\* the channel kept as it is shown in the camera's name, counted from 1
NewCamera_OneBased(id, host, ch, client) ==
    [id |-> id, host |-> host, channel |-> ch + 1, client |-> client, protocol |-> "rtsp",
     ability |-> << >>, online |-> TRUE]

\* NewCamera (camera.go:226-238)
NewCamera(id, host, ch, client) ==
    [id |-> id, host |-> host, channel |-> ch, client |-> client, protocol |-> "rtsp",
     ability |-> << >>, online |-> TRUE]

\* main.go:818-822
validProtocols == {"rtsp", "rtmp", "hls"}

\* Camera.SetProtocol (camera.go:241-248): the empty string stands for rtsp
Camera_SetProtocol(cam, protocol) ==
    [cam EXCEPT !.protocol = IF protocol = "" THEN "rtsp" ELSE protocol]

\* main.go:451-453
SetAbility(cam, ability) == IF Len(ability) = 0 THEN cam ELSE [cam EXCEPT !.ability = ability]

\* main.go:456   p.cameras[cameraID] = cam
Register(cams, id, cam) == [k \in DOMAIN cams \cup {id} |-> IF k = id THEN cam ELSE cams[k]]

\* camera maps as the tests of Health build them, cameras taken offline
\* included (main_test.go:57-139: cam.online = false)
Registries ==
    UNION {{[id \in {CameraID(q[1], q[2]) : q \in made} |->
                LET q == CHOOSE r \in made : CameraID(r[1], r[2]) = id
                IN [NewCamera(id, q[1], q[2], 1) EXCEPT !.online = q \in on]] :
               on \in SUBSET made} : made \in SUBSET (Hosts \X ChannelArgs)}

\* every camera that is online counts for the whole map
Health_AnyOnlineIsHealthy(cams) ==
    LET total == Cardinality(DOMAIN cams)
        online == Cardinality({id \in DOMAIN cams : cams[id].online})
    IN [state |-> IF total = 0 THEN "unknown"
                  ELSE IF online = 0 THEN "unhealthy"
                  ELSE "healthy",
        online |-> online, total |-> total]

\* Plugin.Health (main.go:473-507): State, Details["cameras_online"] and
\* Details["cameras_total"]
Health(cams) ==
    LET total == Cardinality(DOMAIN cams)
        online == Cardinality({id \in DOMAIN cams : cams[id].online})
    IN [state |-> IF total = 0 THEN "unknown"
                  ELSE IF online = 0 THEN "unhealthy"
                  ELSE IF online < total THEN "degraded"
                  ELSE "healthy",
        online |-> online, total |-> total]

\* the health command (main.go:178-179), handled when no other command runs
PluginHealth ==
    /\ ~crashed
    /\ run.op = "none"
    /\ lastCmd.op # "health"
    /\ lastCmd' = [NoCmd EXCEPT !.op = "health", !.res = "ok", !.health = Health(cameras)]
    /\ UNCHANGED <<cameras, pctx, crashed, run, nextClient>>
    /\ UNCHANGED nonRegistryVars

\* the removal of every channel of the camera's device
Delete_Device(cams, id) ==
    [k \in {j \in DOMAIN cams : cams[j].host # cams[id].host} |-> cams[k]]

\* main.go:567   delete(p.cameras, id)
Delete(cams, id) == [k \in DOMAIN cams \ {id} |-> cams[k]]

\* main.go:434-438
RECURSIVE AllChannels(_, _)
AllChannels(i, count) == IF i < count THEN <<i>> \o AllChannels(i + 1, count) ELSE << >>

\* main.go:537-539
DeviceChannels(cfg) == IF cfg.Channel > 0 THEN <<cfg.Channel>> ELSE << >>

\* main.go:420   client.Login(ctx): the basic-auth probe, then the token request
LoginResults(c) ==
    {IF BasicAuthAccepted(ob) THEN "nil" ELSE LoginResult(ol) : ob \in CtxOutcomes(c), ol \in CtxOutcomes(c)}

\* main.go:424   client.GetDeviceInfo(ctx)
DeviceInfoResults(c) ==
    {IF ApiResult("GetDevInfo", o) = "ok"
     THEN [err |-> "nil", ChannelCount |-> ChannelCountOf(cn)]
     ELSE [err |-> "err", ChannelCount |-> 0] : o \in CtxOutcomes(c), cn \in ChannelNums}

\* main.go:431   client.GetAbility(ctx, 0): nil on an error
AbilityResults(c) ==
    {IF ApiResult("GetAbility", o) # "ok" THEN << >>
     ELSE IF o = "ok" THEN <<ab>> ELSE <<ZeroAbility>> : o \in CtxOutcomes(c), ab \in Abilities}

\* main.go:358   context.WithCancel(ctx), ctx being p.ctx when it is set
\* (main.go:154-157)
DerivedContext(c) == IF c = "cancelled" THEN "cancelled" ELSE "live"

\* what becomes of one configured device: the channels its entry lists, the
\* Client made for it, the channel count it reported, the result of
\* connectDevice and the handles registered for it
Attempt(host, listed) ==
    [host |-> host, listed |-> listed, client |-> 0, count |-> 0, res |-> "none", added |-> {}]

\* the device connectDevice is working on
Current(r) == Len(r.conn) - Len(r.devices) + 1

\* main.go:357-365
Initialize(config) ==
    /\ ~crashed
    /\ run.op = "none"
    /\ nextClient + Len(config) <= MaxClients + 1
    /\ pctx' = DerivedContext(pctx)
    /\ run' = [NoRun EXCEPT !.op = "initialize", !.pc = "connect",
                            !.devices = parseConfig(config),
                            !.conn = [i \in 1..Len(config) |->
                                        Attempt(config[i].host, config[i].channels)]]
    /\ lastCmd' = NoCmd
    /\ UNCHANGED <<cameras, crashed, nextClient>>
    /\ UNCHANGED nonRegistryVars

\* main.go:528-541
AddCamera(cfg) ==
    /\ ~crashed
    /\ run.op = "none"
    /\ nextClient <= MaxClients
    /\ run' = [NoRun EXCEPT !.op = "add_camera", !.pc = "connect", !.cfg = cfg,
                            !.devices = <<[Host |-> cfg.Host, Channels |-> DeviceChannels(cfg)]>>,
                            !.conn = <<Attempt(cfg.Host, DeviceChannels(cfg))>>]
    /\ lastCmd' = NoCmd
    /\ UNCHANGED <<cameras, pctx, crashed, nextClient>>
    /\ UNCHANGED nonRegistryVars

\* main.go:415-438: a new Client, its login, the device information and the
\* abilities; context.WithTimeout panics on the nil context of a Plugin that
\* was never initialized
connectDeviceClient ==
    /\ ~crashed
    /\ run.pc = "connect"
    /\ run.devices # << >>
    /\ IF pctx = "nil"
       THEN /\ crashed' = TRUE
            /\ UNCHANGED <<run, nextClient>>
       ELSE /\ \E login \in LoginResults(pctx), info \in DeviceInfoResults(pctx),
                  ability \in AbilityResults(pctx) :
                 LET device == Head(run.devices)
                     channels == IF Len(device.Channels) = 0
                                 THEN AllChannels(0, info.ChannelCount)
                                 ELSE device.Channels
                 IN IF login = "nil" /\ info.err = "nil"
                    THEN run' = [run EXCEPT !.pc = "register", !.client = nextClient,
                                            !.ability = ability, !.pending = channels,
                                            !.conn[Current(run)].client = nextClient,
                                            !.conn[Current(run)].count = info.ChannelCount]
                    ELSE run' = [run EXCEPT !.pc = "connected", !.res = "err",
                                            !.conn[Current(run)].res = "err"]
            /\ nextClient' = nextClient + 1
            /\ UNCHANGED crashed
    /\ UNCHANGED <<cameras, pctx, lastCmd>>
    /\ UNCHANGED nonRegistryVars

\* main.go:440-460: one round of the loop over the channels
connectDeviceRegister ==
    /\ run.pc = "register"
    /\ run.pending # << >>
    /\ LET host == Head(run.devices).Host
           ch == Head(run.pending)
           id == CameraID(host, ch)
           cam == SetAbility(NewCamera(id, host, ch, run.client), run.ability)
       IN /\ cameras' = Register(cameras, id, cam)
          /\ run' = [run EXCEPT !.pending = Tail(@), !.added = @ \cup {id},
                                !.dup = @ \/ id \in DOMAIN cameras,
                                !.conn[Current(run)].added = @ \cup {id}]
    /\ UNCHANGED <<pctx, crashed, nextClient, lastCmd>>
    /\ UNCHANGED nonRegistryVars

\* main.go:462
connectDeviceReturn ==
    /\ run.pc = "register"
    /\ run.pending = << >>
    /\ run' = [run EXCEPT !.pc = "connected", !.res = "nil", !.conn[Current(run)].res = "nil"]
    /\ UNCHANGED <<cameras, pctx, crashed, nextClient, lastCmd>>
    /\ UNCHANGED nonRegistryVars

\* the loop left at the first device that fails
InitializeNext_StopOnError ==
    /\ run.op = "initialize"
    /\ run.pc = "connected"
    /\ run' = [run EXCEPT !.pc = "connect", !.res = "none", !.ability = << >>, !.client = 0,
                          !.devices = IF run.res = "err" THEN << >> ELSE Tail(@)]
    /\ UNCHANGED <<cameras, pctx, crashed, nextClient, lastCmd>>
    /\ UNCHANGED nonRegistryVars

\* main.go:365-369: a device that failed is logged and skipped
InitializeNext ==
    /\ run.op = "initialize"
    /\ run.pc = "connected"
    /\ run' = [run EXCEPT !.pc = "connect", !.devices = Tail(@), !.res = "none",
                          !.ability = << >>, !.client = 0]
    /\ UNCHANGED <<cameras, pctx, crashed, nextClient, lastCmd>>
    /\ UNCHANGED nonRegistryVars

\* main.go:371-372
InitializeReturn ==
    /\ ~crashed
    /\ run.op = "initialize"
    /\ run.pc = "connect"
    /\ run.devices = << >>
    /\ lastCmd' = [NoCmd EXCEPT !.op = "initialize", !.res = "ok",
                                !.added = run.added, !.dup = run.dup, !.conn = run.conn]
    /\ run' = NoRun
    /\ UNCHANGED <<cameras, pctx, crashed, nextClient>>
    /\ UNCHANGED nonRegistryVars

\* a failed connection answered by dropping the handle of the requested id
AddCameraProtocol_CleanupOnError ==
    /\ run.op = "add_camera"
    /\ run.pc = "connected"
    /\ LET id == CameraID(run.cfg.Host, run.cfg.Channel)
       IN IF run.res = "err"
          THEN /\ lastCmd' = [NoCmd EXCEPT !.op = "add_camera", !.id = id, !.res = "err"]
               /\ run' = NoRun
               /\ cameras' = Delete(cameras, id)
          ELSE /\ cameras' = IF run.cfg.Protocol # "" /\ id \in DOMAIN cameras
                             THEN [cameras EXCEPT ![id] = Camera_SetProtocol(@, run.cfg.Protocol)]
                             ELSE cameras
               /\ run' = [run EXCEPT !.pc = "ret"]
               /\ UNCHANGED lastCmd
    /\ UNCHANGED <<pctx, crashed, nextClient>>
    /\ UNCHANGED nonRegistryVars

\* main.go:541-554
AddCameraProtocol ==
    /\ run.op = "add_camera"
    /\ run.pc = "connected"
    /\ LET id == CameraID(run.cfg.Host, run.cfg.Channel)
       IN IF run.res = "err"
          THEN /\ lastCmd' = [NoCmd EXCEPT !.op = "add_camera", !.id = id, !.res = "err"]
               /\ run' = NoRun
               /\ UNCHANGED cameras
          ELSE /\ cameras' = IF run.cfg.Protocol # "" /\ id \in DOMAIN cameras
                             THEN [cameras EXCEPT ![id] = Camera_SetProtocol(@, run.cfg.Protocol)]
                             ELSE cameras
               /\ run' = [run EXCEPT !.pc = "ret"]
               /\ UNCHANGED lastCmd
    /\ UNCHANGED <<pctx, crashed, nextClient>>
    /\ UNCHANGED nonRegistryVars

\* main.go:556 and 194-199: the handle of the requested id, or none
AddCameraReturn ==
    /\ run.op = "add_camera"
    /\ run.pc = "ret"
    /\ LET id == CameraID(run.cfg.Host, run.cfg.Channel)
       IN lastCmd' = [op |-> "add_camera", id |-> id,
                      res |-> IF id \in DOMAIN cameras THEN "ok" ELSE "null",
                      added |-> run.added, dup |-> run.dup, conn |-> << >>,
                      health |-> NoCmd.health]
    /\ run' = NoRun
    /\ UNCHANGED <<cameras, pctx, crashed, nextClient>>
    /\ UNCHANGED nonRegistryVars

\* main.go:559-570. The command takes only Plugin.mu, so on another goroutine
\* it also runs while an add_camera is between its last RUnlock (main.go:553)
\* and the RLock of its final GetCamera (main.go:556, 597)
RemoveCamera(id) ==
    /\ ~crashed
    /\ run.op = "none" \/ (run.op = "add_camera" /\ run.pc = "ret")
    /\ IF id \notin DOMAIN cameras
       THEN /\ lastCmd' = [NoCmd EXCEPT !.op = "remove_camera", !.id = id, !.res = "err"]
            /\ UNCHANGED cameras
       ELSE /\ lastCmd' = [NoCmd EXCEPT !.op = "remove_camera", !.id = id, !.res = "ok"]
            /\ cameras' = Delete(cameras, id)
    /\ UNCHANGED <<pctx, crashed, run, nextClient>>
    /\ UNCHANGED nonRegistryVars

\* main.go:596-603 and 223-227
GetCamera(id) ==
    /\ ~crashed
    /\ run.op = "none"
    /\ lastCmd' = [NoCmd EXCEPT !.op = "get_camera", !.id = id,
                                !.res = IF id \in DOMAIN cameras THEN "ok" ELSE "not_found"]
    /\ UNCHANGED <<cameras, pctx, crashed, run, nextClient>>
    /\ UNCHANGED nonRegistryVars

\* main.go:810-828
SetProtocol(id, protocol) ==
    /\ ~crashed
    /\ run.op = "none"
    /\ IF id \notin DOMAIN cameras \/ protocol \notin validProtocols
       THEN /\ lastCmd' = [NoCmd EXCEPT !.op = "set_protocol", !.id = id, !.res = "err"]
            /\ UNCHANGED cameras
       ELSE /\ lastCmd' = [NoCmd EXCEPT !.op = "set_protocol", !.id = id, !.res = "ok"]
            /\ cameras' = [cameras EXCEPT ![id] = Camera_SetProtocol(@, protocol)]
    /\ UNCHANGED <<pctx, crashed, run, nextClient>>
    /\ UNCHANGED nonRegistryVars

\* main.go:622-637: settings holds the "protocol" string, if the request has one
UpdateCamera(id, settings) ==
    /\ ~crashed
    /\ run.op = "none"
    /\ IF id \notin DOMAIN cameras
       THEN /\ lastCmd' = [NoCmd EXCEPT !.op = "update_camera", !.id = id, !.res = "err"]
            /\ UNCHANGED cameras
       ELSE /\ lastCmd' = [NoCmd EXCEPT !.op = "update_camera", !.id = id, !.res = "ok"]
            /\ cameras' = IF Len(settings) = 0 THEN cameras
                          ELSE [cameras EXCEPT ![id] = Camera_SetProtocol(@, settings[1])]
    /\ UNCHANGED <<pctx, crashed, run, nextClient>>
    /\ UNCHANGED nonRegistryVars

\* a shutdown that marks every camera offline
Shutdown_MarksOffline ==
    /\ ~crashed
    /\ run.op = "none"
    /\ pctx' = IF pctx = "nil" THEN "nil" ELSE "cancelled"
    /\ cameras' = [k \in DOMAIN cameras |-> [cameras[k] EXCEPT !.online = FALSE]]
    /\ lastCmd' = [NoCmd EXCEPT !.op = "shutdown", !.res = "ok"]
    /\ UNCHANGED <<crashed, run, nextClient>>
    /\ UNCHANGED nonRegistryVars

\* main.go:465-471
Shutdown ==
    /\ ~crashed
    /\ run.op = "none"
    /\ pctx' = IF pctx = "nil" THEN "nil" ELSE "cancelled"
    /\ lastCmd' = [NoCmd EXCEPT !.op = "shutdown", !.res = "ok"]
    /\ UNCHANGED <<cameras, crashed, run, nextClient>>
    /\ UNCHANGED nonRegistryVars

NextRegistry ==
    \/ \E config \in Configs : Initialize(config)
    \/ \E cfg \in CameraConfigs : AddCamera(cfg)
    \/ connectDeviceClient
    \/ connectDeviceRegister
    \/ connectDeviceReturn
    \/ InitializeNext
    \/ InitializeReturn
    \/ AddCameraProtocol
    \/ AddCameraReturn
    \/ \E id \in CameraIDs : RemoveCamera(id)
    \/ \E id \in CameraIDs : GetCamera(id)
    \/ \E id \in CameraIDs, protocol \in {"", "rtsp", "webrtc"} : SetProtocol(id, protocol)
    \/ \E id \in CameraIDs, settings \in {<< >>, <<"">>, <<"webrtc">>} :
         UpdateCamera(id, settings)
    \/ Shutdown
    \/ PluginHealth

SpecRegistry == Init /\ [][NextRegistry]_vars

-----------------------------------------------------------------------------
(* The classification of a model string, by the Client (client.go:479-491) *)
(* and by the helpers of camera.go                                         *)

\* a model string with a channel count, or two short strings
InitModel ==
    /\ SessionInit
    /\ pctx = "nil"
    /\ crashed = FALSE
    /\ run = NoRun
    /\ nextClient = 1
    /\ lastCmd = NoCmd
    /\ ptz = NoPTZ
    /\ pmu = NoLock
    /\ ord = NoOrd
    /\ out = NoOut
    /\ \/ cameras = << >> /\ mdl \in ModelStrings /\ needle = << >> /\ nch \in 1..MaxChannels
       \/ cameras = << >> /\ mdl \in ShortStrings /\ needle \in ShortNeedles /\ nch = 1
       \/ cameras \in Registries /\ mdl = << >> /\ needle = << >> /\ nch = 1

\* client.go:479-482, 491
Classify ==
    /\ out.by = "none"
    /\ LET c == Classification(mdl, nch)
       IN out' = [NoOut EXCEPT !.by = "client", !.DeviceType = c.DeviceType,
                               !.IsDoorbell = c.IsDoorbell, !.IsNVR = c.IsNVR,
                               !.IsBattery = c.IsBattery, !.HasAIDetection = c.HasAIDetection,
                               !.contains = Contains(ToLower(mdl), ToLower(needle))]
    /\ UNCHANGED <<mdl, needle, nch>>
    /\ UNCHANGED <<sessionVars, registryVars, ptz, pmu, ord>>

\* camera.go:459-488
CameraHelpers ==
    /\ out.by = "none"
    /\ out' = [NoOut EXCEPT !.by = "camera",
                            !.IsDoorbell = isDoorbellModel(mdl),
                            !.IsBattery = isBatteryModel(mdl),
                            !.HasAIDetection = hasAIDetection(mdl),
                            !.contains = containsIgnoreCase(mdl, needle)]
    /\ UNCHANGED <<mdl, needle, nch>>
    /\ UNCHANGED <<sessionVars, registryVars, ptz, pmu, ord>>

\* Client.GetCachedDeviceInfo is not among the sources: nothing while no
\* device information was fetched, then the information fetched last
GetCachedDeviceInfo(count) == {<< >>, <<count>>}

\* camera.go:267-282
Camera_DeviceType(model, info) ==
    IF isDoorbellModel(model) THEN "doorbell"
    ELSE IF isBatteryModel(model) THEN "battery"
    ELSE IF Len(info) > 0 /\ info[1] > 1 THEN "nvr"
    ELSE "camera"

\* camera.go:308-339
Capabilities(model, ability) ==
    {"video", "snapshot"}
    \cup (IF Len(ability) > 0 /\ (ability[1].PTZ \/ ability[1].PanTilt) THEN {"ptz"} ELSE {})
    \cup (IF Len(ability) > 0 /\ ability[1].TwoWayAudio THEN {"two_way_audio"} ELSE {})
    \cup (IF Len(ability) > 0 /\ ability[1].AudioAlarm THEN {"audio"} ELSE {})
    \cup (IF isDoorbellModel(model) THEN {"doorbell"} ELSE {})
    \cup (IF isBatteryModel(model) THEN {"battery"} ELSE {})
    \cup (IF hasAIDetection(model) THEN {"ai_detection", "motion"} ELSE {})

\* main.go:713-748, on a handle of the model with the ability of SetAbility
\* (main.go:451-453), if GetAbility gave one
GetCapabilities ==
    /\ out.by = "none"
    /\ \E ability \in {<< >>, <<ZeroAbility>>} \cup {<<a>> : a \in Abilities},
          info \in GetCachedDeviceInfo(nch) :
         LET caps == Capabilities(mdl, ability)
             type == Camera_DeviceType(mdl, info)
         IN out' = [NoOut EXCEPT !.by = "caps", !.ability = ability,
                                 !.HasPTZ = "ptz" \in caps,
                                 !.HasAudio = "audio" \in caps,
                                 !.HasTwoWayAudio = "two_way_audio" \in caps,
                                 !.HasAIDetection = "ai_detection" \in caps,
                                 !.DeviceType = type,
                                 !.IsDoorbell = (type = "doorbell"),
                                 !.IsNVR = (type = "nvr"),
                                 !.IsBattery = (type = "battery")]
    /\ UNCHANGED <<mdl, needle, nch>>
    /\ UNCHANGED <<sessionVars, registryVars, ptz, pmu, ord>>

NextModel == Classify \/ CameraHelpers \/ GetCapabilities \/ PluginHealth

SpecModel == InitModel /\ [][NextModel]_vars

-----------------------------------------------------------------------------
(* Claims about the session *)

Session == <<token, tokenExp, useBasicAuth>>

\* C1: after a token login at time T with a lease of L seconds (3600 when the
\* response has none) tokenExp is T + (L - 60); with L = 3600 an ensureToken
\* at T + 3539 performs no Login and one at T + 3541 performs exactly one.
C1_TokenLease ==
    /\ lastLogin.kind = "token" =>
         tokenExp = lastLogin.t
                    + ((IF lastLogin.lease = << >> THEN 3600 ELSE lastLogin.lease[1]) - 60)
    /\ \A p \in Procs :
         LET l == ens[p].last
         IN (l.kind = "token" /\ l.lease \in {<< >>, <<3600>>}) =>
              /\ ens[p].t = l.t + 3539 => nlogin[p] = 0
              /\ ens[p].t = l.t + 3541 => nlogin[p] = 1

\* an ensureToken 3541 s after a token login with the default lease has called Login
C1_Witness ==
    \E p \in Procs :
        /\ ens[p].last.kind = "token"
        /\ ens[p].last.lease \in {<< >>, <<3600>>}
        /\ ens[p].t = ens[p].last.t + 3541
        /\ nlogin[p] = 1
        /\ pc[p] = "tba"

\* C2: once the basic-auth probe has succeeded the session stores no token, and
\* every authenticated request (GetDevInfo, GetAbility, GetEnc, PtzCtrl, Snap)
\* carries user/password in the URL and no token parameter.
C2_BasicAuthRequests ==
    /\ [](\A p \in Procs :
            (req[p].cmd # "none" /\ req[p].basic) => (req[p].creds /\ ~req[p].tokenParam))
    /\ [][useBasicAuth => token' = token]_vars

\* C3: every authenticated request carries the token parameter when the
\* session is in token mode and the user/password parameters when it is in
\* basic-auth mode, and never both, also on a session that is in basic-auth
\* mode with a token stored by an earlier login.
C3_TokenOrCredentials ==
    \A p \in Procs :
        req[p].cmd # "none" =>
            IF req[p].basic THEN req[p].creds /\ ~req[p].tokenParam
            ELSE req[p].tokenParam /\ ~req[p].creds

\* the part of C3 that holds whatever the mode: a request carries exactly one
\* of the token parameter and the user/password parameters
NeverBothParameters ==
    \A p \in Procs : req[p].cmd # "none" => (req[p].tokenParam # req[p].creds)

\* a doRequest on a session that holds a token and has useBasicAuth set
BasicRequestWithStoredToken ==
    \E p \in Procs :
        /\ req[p].cmd \in {"PtzCtrl", "GetDevInfo", "GetAbility", "GetEnc"}
        /\ useBasicAuth
        /\ token # ""
        /\ req[p].creds

\* C4: a Login that returns an error leaves token, tokenExp and useBasicAuth
\* as they were when it was called.
C4_FailedLoginKeepsSession ==
    \A p \in Procs : lres[p] = "err" => Session = pre[p]

\* a re-login of a session holding a token has failed
C4_Witness ==
    \E p \in Procs : lres[p] = "err" /\ token # "" /\ caller[p] = "ensure"

\* C5: with concurrent Logins, the (token, tokenExp) pair a reader sees was
\* written by one Login, and so is the pair left when no store is under way.
C5_ConsistentPair ==
    /\ \A p \in Procs : obs[p].tokenBy = obs[p].expBy
    /\ mu = NoProc => tokenBy = expBy

\* one Login is between its two stores while another waits for the lock and a
\* third goroutine, or the same later, has read the pair
C5_Witness ==
    \E p \in Procs, q \in Procs :
        /\ p # q
        /\ pc[p] = "lg_exp"
        /\ pc[q] = "lg_lock"
        /\ tokenBy # expBy

-----------------------------------------------------------------------------
(* Claims about the camera registry *)

\* C6: the registry holds one Client per host: any two handles of the same
\* host share their Client, whichever commands registered them.
C6_OneClientPerHost ==
    \A a \in DOMAIN cameras : \A b \in DOMAIN cameras :
        cameras[a].host = cameras[b].host => cameras[a].client = cameras[b].client

\* C7: registering a handle under an id that is already present leaves the
\* existing handle in place, and the add_camera that attempted it fails.
C7_NoOverwrite ==
    [][/\ (run.pc = "register" /\ run.pending # << >>) =>
            LET id == CameraID(Head(run.devices).Host, Head(run.pending))
            IN id \in DOMAIN cameras => cameras'[id] = cameras[id]
       /\ (lastCmd'.op = "add_camera" /\ lastCmd'.dup) => lastCmd'.res = "err"]_vars

\* C8: remove_camera of an id that is not registered returns an error and
\* leaves the registry as it was; of a registered id it deletes that entry
\* and no other, and a get_camera of the id that follows reports not found.
C8_RemoveCamera ==
    [][/\ lastCmd'.op = "remove_camera" =>
            LET id == lastCmd'.id
            IN IF id \notin DOMAIN cameras
               THEN lastCmd'.res = "err" /\ cameras' = cameras
               ELSE /\ lastCmd'.res = "ok"
                    /\ DOMAIN cameras' = DOMAIN cameras \ {id}
                    /\ \A k \in DOMAIN cameras' : cameras'[k] = cameras[k]
       /\ (/\ lastCmd.op = "remove_camera"
           /\ lastCmd.res = "ok"
           /\ lastCmd'.op = "get_camera"
           /\ lastCmd'.id = lastCmd.id) => lastCmd'.res = "not_found"]_vars

\* a camera was removed while another channel of its device stays registered
C8_Witness ==
    /\ lastCmd.op = "remove_camera"
    /\ lastCmd.res = "ok"
    /\ lastCmd.id \notin DOMAIN cameras
    /\ \E k \in DOMAIN cameras, ch \in ChannelArgs :
         lastCmd.id = CameraID(cameras[k].host, ch)

\* C9: an add_camera that succeeds has registered exactly one handle, the one
\* of the requested host and channel, also when the channel is 0 or omitted.
C9_AddsOneHandle ==
    (lastCmd.op = "add_camera" /\ lastCmd.res # "err") =>
        /\ lastCmd.added = {lastCmd.id}
        /\ lastCmd.id \in DOMAIN cameras
        /\ lastCmd.id = CameraID(cameras[lastCmd.id].host, cameras[lastCmd.id].channel)

-----------------------------------------------------------------------------
(* Claims about the probe *)

\* C10: for a device reporting N channels, a probe whose encoder fetch fails on
\* some channels succeeds with N entries numbered 0..N-1 in order; a failed
\* channel has zero-valued profiles, the others the profiles fetched.
C10_ProbeChannels ==
    /\ probe.status = "err" => probe.fetched = << >>
    /\ (probe.status = "ok" /\ probe.ChannelCount >= 1) =>
         /\ Len(probe.Channels) = probe.ChannelCount
         /\ \A i \in 1..Len(probe.Channels) :
              LET e == probe.Channels[i]
                  f == probe.fetched[i]
              IN /\ e.Channel = i - 1
                 /\ f.res = "err" => (e.MainStream = ZeroStream /\ e.SubStream = ZeroStream)
                 /\ f.res = "ok" => (e.MainStream = f.enc.MainStream
                                     /\ e.SubStream = f.enc.SubStream)

\* a finished probe of a two-channel device whose first fetch failed and whose
\* second succeeded
C10_Witness ==
    /\ probe.status = "ok"
    /\ probe.ChannelCount = 2
    /\ probe.fetched[1].res = "err"
    /\ probe.fetched[2].res = "ok"
    /\ probe.Channels[2].MainStream # ZeroStream

\* C11: ProbeCamera returns an error and no result exactly when the
\* device-info fetch (with the login it triggers) fails; a failed ability
\* fetch does not fail the probe, leaves hasPTZ, hasTwoWayAudio and
\* hasAudioAlarm false, and the classification from the model string is made.
C11_ProbeErrors ==
    /\ probe.status = "err" <=> probe.infoRes = "err"
    /\ probe.status = "err" =>
         /\ probe.Channels = << >>
         /\ probe.DeviceType = ""
         /\ probe.abilityRes = "none"
    /\ probe.status = "ok" => probe.infoRes = "ok"
    /\ (probe.infoRes = "ok" /\ probe.abilityRes = "err") =>
         /\ probe.status # "err"
         /\ ~probe.HasPTZ /\ ~probe.HasTwoWayAudio /\ ~probe.HasAudioAlarm
         /\ probe.DeviceType = detectDeviceType(probe.Model)
         /\ probe.HasAIDetection = Client_hasAIDetection(probe.Model)

\* a finished probe of an NVR whose ability fetch failed
C11_Witness ==
    /\ probe.status = "ok"
    /\ probe.abilityRes = "err"
    /\ probe.DeviceType = "nvr"
    /\ Len(probe.Channels) = 2

\* C12: a probe whose context is cancelled after the device-info fetch
\* succeeded reports the failure it then meets to its caller, and the channels
\* filled in before keep the encoder profiles fetched for them.
C12_CancelledProbeFails ==
    /\ (probe.status = "ok" /\ probe.infoRes = "ok") => ~probe.failedAfterCancel
    /\ \A i \in 1..Len(probe.Channels) :
         probe.fetched[i].res = "ok" =>
             /\ probe.Channels[i].MainStream = probe.fetched[i].enc.MainStream
             /\ probe.Channels[i].SubStream = probe.fetched[i].enc.SubStream

\* C13: whenever Login records tokenExp, the value is strictly later than the
\* moment it is recorded, for every lease time the device reports.
C13_ExpiryInFuture ==
    lastLogin.kind = "token" => tokenExp > lastLogin.t

-----------------------------------------------------------------------------
(* Claims about the classification *)

\* C14: detectDeviceType gives, whatever the case of the letters, doorbell for
\* "Reolink Video Doorbell PoE", nvr for "RLN8-410", battery_camera for
\* "Argus 3 Pro", ptz_camera for "TrackMix PoE", floodlight_camera for
\* "Reolink Duo Floodlight" and camera for "RLC-810A"; of several families a
\* model matches, the first of doorbell, nvr, battery_camera, ptz_camera,
\* floodlight_camera wins, and a model that matches none is a camera.
C14_DeviceTypes ==
    out.by = "client" =>
        LET m == ToLower(mdl)
            Is(x) == m = ToLower(x)
            Has(k) == Contains(m, k)
            doorbell == Has(Kw.doorbell)
            nvr == Has(Kw.nvr) \/ Has(Kw.rlnk) \/ Has(Kw.rln8_410) \/ Has(Kw.rln16_410)
                     \/ Has(Kw.rln36)
            battery == Has(Kw.argus) \/ Has(Kw.lumus) \/ Has(Kw.go) \/ Has(Kw.battery)
            ptzCam == Has(Kw.trackmi)
            floodlight == Has(Kw.duo) \/ Has(Kw.floodlight)
        IN /\ Is(Model.VideoDoorbellPoE) => out.DeviceType = "doorbell"
           /\ Is(Model.RLN8_410) => out.DeviceType = "nvr"
           /\ Is(Model.Argus3Pro) => out.DeviceType = "battery_camera"
           /\ Is(Model.TrackMixPoE) => out.DeviceType = "ptz_camera"
           /\ Is(Model.DuoFloodlight) => out.DeviceType = "floodlight_camera"
           /\ Is(Model.RLC_810A) => out.DeviceType = "camera"
           /\ out.DeviceType =
                IF doorbell THEN "doorbell"
                ELSE IF nvr THEN "nvr"
                ELSE IF battery THEN "battery_camera"
                ELSE IF ptzCam THEN "ptz_camera"
                ELSE IF floodlight THEN "floodlight_camera"
                ELSE "camera"

\* C15: in every probe result the deviceType agrees with the flags of the
\* result: isDoorbell gives doorbell; isNVR without isDoorbell gives nvr;
\* isBattery without isDoorbell and isNVR gives battery_camera.
C15_TypeAgreesWithFlags ==
    probe.status = "ok" =>
        /\ probe.IsDoorbell => probe.DeviceType = "doorbell"
        /\ (~probe.IsDoorbell /\ probe.IsNVR) => probe.DeviceType = "nvr"
        /\ (~probe.IsDoorbell /\ ~probe.IsNVR /\ probe.IsBattery) =>
             probe.DeviceType = "battery_camera"

\* C16: the isNVR flag of a probe result is true exactly when the channel
\* count is above 1 or the model contains, in any case of the letters, one of
\* nvr, rlnk, rln8-410, rln16-410, rln36.
C16_IsNVR ==
    probe.status = "ok" =>
        LET m == ToLower(probe.Model)
        IN probe.IsNVR <=>
             \/ probe.ChannelCount > 1
             \/ Contains(m, Kw.nvr) \/ Contains(m, Kw.rlnk) \/ Contains(m, Kw.rln8_410)
             \/ Contains(m, Kw.rln16_410) \/ Contains(m, Kw.rln36)

\* C17: containsIgnoreCase(s, sub) is true exactly when sub occurs in s as a
\* contiguous substring, ASCII letters compared without regard to case; so
\* isDoorbellModel, isBatteryModel and hasAIDetection of camera.go answer as
\* the lower-case strings.Contains versions of the Client do.
C17_ContainsIgnoreCase ==
    out.by = "camera" =>
        /\ out.contains = Contains(ToLower(mdl), ToLower(needle))
        /\ out.IsDoorbell = Client_isDoorbellModel(mdl)
        /\ out.IsBattery = Client_isBatteryModel(mdl)
        /\ out.HasAIDetection = Client_hasAIDetection(mdl)

\* C18: hasAIDetection is false exactly when the model contains, in any case
\* of the letters, one of rlc-410, rlc-420, e1 zoom, c1 pro, and true for
\* every other model string, the empty one included.
C18_HasAIDetection ==
    out.by # "none" =>
        LET m == ToLower(mdl)
        IN out.HasAIDetection <=>
             ~(\/ Contains(m, Kw.rlc_410) \/ Contains(m, Kw.rlc_420)
               \/ Contains(m, Kw.e1_zoom) \/ Contains(m, Kw.c1_pro))

-----------------------------------------------------------------------------
(* Claims about Camera.PTZControl *)

\* C19: Camera.PTZControl turns pan into Left (direction < 0) or Right
\* (direction >= 0), tilt into Down or Up, zoom into ZoomDec or ZoomInc, stop
\* into Stop and preset into ToPos with the preset id; every other action gives
\* the unknown-action error, and handling it sends nothing to the device,
\* neither a login nor a PtzCtrl request: the Client and its requests are left
\* as they were.
C19_PTZTranslation ==
    /\ [](ptz.res # "none" =>
            LET c == ptz.cmd
                a == ptz.arg
                neg == c.Direction < 0
            IN /\ c.Action = "pan" => a.Operation = IF neg THEN "Left" ELSE "Right"
               /\ c.Action = "tilt" => a.Operation = IF neg THEN "Down" ELSE "Up"
               /\ c.Action = "zoom" => a.Operation = IF neg THEN "ZoomDec" ELSE "ZoomInc"
               /\ c.Action = "stop" => a.Operation = "Stop"
               /\ c.Action = "preset" => a.Operation = "ToPos" /\ a.Preset = c.Preset
               /\ ptz.res = "unknown_action" <=>
                    c.Action \notin {"pan", "tilt", "zoom", "stop", "preset"}
               /\ (op[Owner] = "ptz" /\ pc[Owner] # "idle") => ptz.res = "pending"
               /\ req[Owner].cmd = "PtzCtrl" => ptz.res = "pending")
    /\ [][(ptz' # ptz /\ ptz'.res = "unknown_action") =>
            /\ UNCHANGED sessionVars
            /\ pc[Owner] = "idle" /\ req[Owner] = NoReq]_vars

\* an unknown action was refused on a Camera whose session has run out, where
\* a known action would have logged in first
C19_Witness ==
    /\ ptz.res = "unknown_action"
    /\ ptz.cmd.Action = "unknown_action"
    /\ shared
    /\ NeedLogin(useBasicAuth, token, tokenExp, now)
    /\ token # ""
    /\ pc[Owner] = "idle"
    /\ req[Owner] = NoReq

\* C20: the speed sent with a PTZ command is 30 when the speed asked for is
\* unset or <= 0 and round(speed * 64) otherwise, the nearest whole number on
\* the vendor scale.
C20_SpeedSent ==
    ptz.res \notin {"none", "unknown_action"} =>
        ptz.arg.Speed =
            IF ptz.cmd.Speed <= 0 THEN DefaultSpeed
            ELSE (2 * ptz.cmd.Speed * VendorScale + SpeedScale) \div (2 * SpeedScale)

-----------------------------------------------------------------------------
(* Claims about the commands of the Plugin *)

\* C21: in every reachable state the streaming-protocol preference of every
\* registered handle is one of rtsp, rtmp, hls; no command stores another value.
C21_ProtocolPreference ==
    \A id \in DOMAIN cameras : cameras[id].protocol \in {"rtsp", "rtmp", "hls"}

\* C22: ptz_control returns success only if the device answered the PtzCtrl
\* request with a response entry whose status code is 0; a transport error, a
\* non-200 HTTP status, a non-zero status code and a response without an entry
\* are each reported as an error.
C22_NoSilentSuccess ==
    /\ ptz.res = "nil" => ptz.answer \in {"ok", "bad_value"}
    /\ (ptz.res \in {"nil", "err"}
           /\ ptz.answer \in {"transport", "http_err", "code_err", "empty"}) =>
         ptz.res = "err"

C24_ListedChannels ==
    lastCmd.op = "initialize" =>
        \A i \in 1..Len(lastCmd.conn) :
            LET d == lastCmd.conn[i]
            IN d.res = "nil" =>
                 d.added = IF Len(d.listed) > 0
                           THEN {CameraID(d.host, d.listed[k]) : k \in 1..Len(d.listed)}
                           ELSE {CameraID(d.host, ch) : ch \in 0..(d.count - 1)}

\* C25: a capability asserted by either source is reported true by
\* get_capabilities: isDoorbell, isBattery and isNVR whenever the model
\* heuristic (for isNVR also a channel count above 1) asserts them,
\* independently of one another; hasPTZ, hasTwoWayAudio and hasAudio whenever
\* the declared ability asserts them.
C25_CapabilityUnion ==
    out.by = "caps" =>
        LET m == ToLower(mdl)
            Has(k) == Contains(m, k)
            a == IF Len(out.ability) > 0 THEN out.ability[1] ELSE ZeroAbility
        IN /\ Has(Kw.doorbell) => out.IsDoorbell
           /\ (Has(Kw.argus) \/ Has(Kw.lumus) \/ Has(Kw.go) \/ Has(Kw.battery)) => out.IsBattery
           /\ (\/ nch > 1
               \/ Has(Kw.nvr) \/ Has(Kw.rlnk) \/ Has(Kw.rln8_410) \/ Has(Kw.rln16_410)
               \/ Has(Kw.rln36)) => out.IsNVR
           /\ (a.PTZ \/ a.PanTilt) => out.HasPTZ
           /\ a.TwoWayAudio => out.HasTwoWayAudio
           /\ a.AudioAlarm => out.HasAudio

\* C26: every deviceType reported is one of camera, doorbell, nvr,
\* battery_camera, ptz_camera, floodlight_camera, and for the same model string
\* and channel count get_capabilities reports the deviceType the probe reports.
C26_SameDeviceType ==
    out.by \in {"client", "caps"} =>
        /\ out.DeviceType \in {"camera", "doorbell", "nvr", "battery_camera", "ptz_camera",
                                "floodlight_camera"}
        /\ out.DeviceType = detectDeviceType(mdl)

-----------------------------------------------------------------------------
(* Further claims about the session *)

\* C27: within one Login the token-login command is sent only after the
\* basic-auth probe of that Login has failed; when the probe succeeds, Login
\* returns success without a token-login command and the session is in
\* basic-auth mode.
C27_BasicProbeFirst ==
    /\ [](\A p \in Procs :
            /\ pc[p] \in {"tok", "lg_lock", "lg_tok", "lg_exp"} => lg[p].basic = "failed"
            /\ pc[p] = "tba_set" => lg[p].basic = "code0")
    /\ [][\A p \in Procs :
            /\ (pc'[p] = "tok" /\ pc[p] # "tok") => pc[p] = "tba"
            /\ (pc[p] = "tba" /\ pc'[p] # "tba") =>
                 pc'[p] = (IF lg'[p].basic = "code0" THEN "tba_set" ELSE "tok")
            /\ (pc[p] = "tba_set" /\ pc'[p] # "tba_set") =>
                 /\ pc'[p] = "login_ret"
                 /\ lres'[p] = "nil"
                 /\ useBasicAuth'
                 /\ token' = token /\ tokenExp' = tokenExp]_vars

\* a Login that the basic-auth probe settled, on a Client that never held a
\* token
C27_Witness ==
    \E p \in Procs :
        /\ pc[p] = "login_ret"
        /\ lres[p] = "nil"
        /\ useBasicAuth
        /\ lastLogin.kind = "basic"
        /\ token = ""

\* C28: no goroutine holds Plugin.mu, shared or exclusive, while it is in a
\* call of the Client (ensureToken, Login, a request): ptz_control and
\* get_snapshot hold the shared lock only for the lookup, and connectDevice
\* holds the exclusive lock only for the insertion, after its Login,
\* GetDeviceInfo and GetAbility have returned.
C28_NoLockDuringIO ==
    \A p \in Procs :
        /\ p \in pmu.r <=> pc[p] = "lookup"
        /\ pmu.w = p <=> pc[p] = "insert"
        /\ pc[p] = "insert" =>
             /\ op[p] = "connect" /\ stage[p] = "insert"
             /\ cmd[p] = "GetAbility" /\ ares[p] # "none"
        /\ pc[p] \notin {"idle", "lookup", "insert"} => (p \notin pmu.r /\ pmu.w # p)

\* a PtzCtrl or Snap request is about to be sent by one goroutine while
\* another holds the shared lock for its lookup
C28_Witness ==
    \E p, q \in Procs :
        /\ p # q
        /\ pc[p] = "send" /\ op[p] = "cmd" /\ cmd[p] \in {"PtzCtrl", "Snap"}
        /\ p \notin pmu.r
        /\ pc[q] = "lookup" /\ q \in pmu.r

\* C29: health answers "unknown" exactly for an empty map, "unhealthy"
\* exactly for a non-empty map with no camera online, "degraded" exactly when
\* some but not all cameras are online, "healthy" exactly for a non-empty map
\* with every camera online; cameras_total is the size of the map and
\* cameras_online the number of cameras online.
C29_Health ==
    lastCmd.op = "health" =>
        LET h == lastCmd.health
            ids == DOMAIN cameras
            some == \E id \in ids : cameras[id].online
            all == \A id \in ids : cameras[id].online
        IN /\ h.state \in {"unknown", "unhealthy", "degraded", "healthy"}
           /\ h.state = "unknown" <=> ids = {}
           /\ h.state = "unhealthy" <=> (ids # {} /\ ~some)
           /\ h.state = "degraded" <=> (some /\ ~all)
           /\ h.state = "healthy" <=> (ids # {} /\ all)
           /\ h.total = Cardinality(ids)
           /\ h.online = Cardinality({id \in ids : cameras[id].online})

\* health answered "degraded" for a map of three cameras, one of them offline
C29_Witness ==
    /\ lastCmd.op = "health"
    /\ lastCmd.health = [state |-> "degraded", online |-> 2, total |-> 3]

\* C30: ensureToken calls Login exactly when the session is not in basic-auth
\* mode and either holds no token or is called at a time that is not before
\* tokenExp, the time tokenExp itself included; in basic-auth mode it never
\* calls Login.
C30_EnsureToken ==
    [][\A p \in Procs :
         (pc[p] = "ensure" /\ pc'[p] # "ensure") =>
             /\ ens'[p].t = now
             /\ nlogin'[p] = 1 <=> (~useBasicAuth /\ (token = "" \/ now >= tokenExp))
             /\ useBasicAuth => nlogin'[p] = 0]_vars

\* C31: the basic-auth probe and the token login each go on to the HTTPS
\* endpoint only after a transport failure of the HTTP endpoint, never after
\* an HTTP error status or an unparseable body, and do so once; every other
\* command is sent once per call, so the step that sends it is followed by
\* the return of the method.
C31_FallbackOnTransportOnly ==
    [][\A p \in Procs :
         /\ pc[p] \in {"tba", "tok"} /\ pc'[p] # pc[p] =>
                lg'[p].fallback \in {"none", "transport"}
         /\ pc[p] = "tba" /\ pc'[p] # "tba" => pc'[p] \in {"tba_set", "tok"}
         /\ pc[p] = "tok" /\ pc'[p] # "tok" => pc'[p] \in {"lg_lock", "login_ret"}
         /\ pc[p] = "send" /\ pc'[p] # "send" => pc'[p] = "ret" /\ req'[p].cmd = cmd[p]]_vars

\* C32: a connectDevice that fails (Login or GetDeviceInfo returned an error,
\* a cancelled context included) has inserted no handle and leaves the camera
\* map as it was; so does every step of an add_camera that returns the
\* error, and the step of initialize that goes on to the next device.
C32_FailedConnectionKeepsRegistry ==
    [][/\ (run.pc = "connect" /\ run'.pc = "connected" /\ run'.res = "err") =>
            /\ cameras' = cameras
            /\ run'.added = run.added
            /\ run'.conn[Current(run)].added = {}
       /\ (run.pc = "connected" /\ run.res = "err") =>
            /\ cameras' = cameras
            /\ run.op = "add_camera" =>
                  (run.added = {} /\ lastCmd'.op = "add_camera" /\ lastCmd'.res = "err")]_vars

\* an add_camera has returned an error and the map holds the cameras it held
C32_Witness ==
    /\ lastCmd.op = "add_camera"
    /\ lastCmd.res = "err"
    /\ DOMAIN cameras # {}
    /\ lastCmd.id \in DOMAIN cameras

\* C33: every key of the camera map is the id of the camera stored under it,
\* that id is the host, "_ch" and the channel of the camera, and it stays the
\* same for as long as the key is in the map; cameras that differ in host or
\* channel differ in id, and no other host and channel, a host spelt like an
\* id and channels of two digits included, make the id of a camera in the map.
C33_StableUniqueID ==
    /\ [](\A k \in DOMAIN cameras :
            /\ cameras[k].id = k
            /\ cameras[k].id = CameraID(cameras[k].host, cameras[k].channel)
            /\ \A b \in DOMAIN cameras :
                 <<cameras[k].host, cameras[k].channel>> # <<cameras[b].host, cameras[b].channel>>
                     => cameras[k].id # cameras[b].id
            /\ \A r \in Hosts \X (0..MaxChannels \cup {10, 11}) :
                 CameraID(r[1], r[2]) = k => r = <<cameras[k].host, cameras[k].channel>>)
    /\ [][\A k \in DOMAIN cameras \cap DOMAIN cameras' :
             /\ cameras'[k].id = cameras[k].id
             /\ cameras'[k].host = cameras[k].host
             /\ cameras'[k].channel = cameras[k].channel]_vars

\* channel 1 of host "h" is registered as "h_ch1" next to channel 0 of the
\* host "h_ch1", registered as "h_ch1_ch0"
C33_Witness ==
    /\ run.op = "none"
    /\ \E a, b \in DOMAIN cameras :
         /\ cameras[a].host = <<104>> /\ cameras[a].channel = 1
         /\ cameras[b].host = a /\ cameras[b].channel = 0
         /\ b = a \o <<95, 99, 104, 48>>

\* C34: a GetDeviceInfo that succeeds yields a channel count of at least 1,
\* whatever channelNum the device reports (1 when it reports none or 0); so a
\* probe that succeeds returns at least one channel entry, and as many
\* entries as the channel count.
C34_ChannelCountPositive ==
    /\ \A p \in Procs :
         (pc[p] = "ret" /\ cmd[p] = "GetDevInfo" /\ ares[p] = "ok") =>
             LET count == ChannelCountOf(apay[p].channelNum)
             IN /\ count >= 1
                /\ apay[p].channelNum \in {<< >>, <<0>>} => count = 1
    /\ probe.status = "ok" =>
         /\ probe.ChannelCount >= 1
         /\ Len(probe.Channels) >= 1
         /\ Len(probe.Channels) = probe.ChannelCount

\* C35: a goroutine that asks for Plugin.mu holds no lock of a Camera or of
\* the Client, and a goroutine that asks for a lock does not hold that lock;
\* so, with any commands under way, some goroutine that has a lock operation
\* to do can do it, and every command that was started ends.
C35_LockOrder ==
    /\ [](\A p \in Procs :
            ord.todo[p] # << >> =>
                LET o == Head(ord.todo[p])
                    mine == {ord.held[p][i][1] : i \in 1..Len(ord.held[p])}
                IN /\ (o[1] \in {"RLock", "Lock"} /\ o[2] = "Plugin") => mine = {}
                   /\ o[1] \in {"RLock", "Lock"} => o[2] \notin mine
                   /\ mine \subseteq {"Plugin", o[2]}
                   /\ \E q \in Procs : ENABLED OrderStep(q))
    /\ \A p \in Procs : (ord.todo[p] # << >>) ~> (ord.todo[p] = << >>)

\* one goroutine holds Plugin.mu for reading and is about to take the lock of
\* a Camera for writing, which another goroutine holds for writing
C35_Witness ==
    \E p, q \in Procs :
        /\ p # q
        /\ ord.held[p] = <<<<"Plugin", "r">>>>
        /\ Head(ord.todo[p]) = <<"Lock", "Camera">>
        /\ ord.held[q] = <<<<"Camera", "w">>>>

\* C36: the handling of a request never aborts: every command, in every state
\* of the Plugin, comes to its response; an add_camera handled before any
\* initialize does not stop on the context that initialize has not set.
C36_AlwaysResponds == ~crashed

\* C37: an initialize installs a context that is not cancelled, also when a
\* shutdown came before it, so that connectDevice can reach its devices.
C37_InitializeRevives ==
    [][run.op = "none" /\ run'.op = "initialize" => pctx' = "live"]_vars

\* C38: every registered camera is online, whatever commands ran and however
\* they ended; so health answers "unknown" for an empty map and "healthy" for
\* any other map, with as many cameras online as there are cameras.
C38_AlwaysOnline ==
    /\ \A k \in DOMAIN cameras : cameras[k].online
    /\ lastCmd.op = "health" =>
          /\ lastCmd.health.state \in {"unknown", "healthy"}
          /\ lastCmd.health.state = "unknown" <=> DOMAIN cameras = {}
          /\ lastCmd.health.online = lastCmd.health.total

\* health answered "healthy" for two cameras after the context was cancelled,
\* in which every connection fails
C38_Witness ==
    /\ lastCmd.op = "health"
    /\ lastCmd.health = [state |-> "healthy", online |-> 2, total |-> 2]
    /\ pctx = "cancelled"

\* C39: an add_camera that returns without an error returns the handle of
\* the id made of the requested host and channel, and that handle has the
\* requested protocol when the request names one.
C39_AddCameraReturnsHandle ==
    [][(run.op = "add_camera" /\ run.pc = "ret" /\ run'.op = "none") =>
          LET id == CameraID(run.cfg.Host, run.cfg.Channel)
          IN /\ lastCmd'.op = "add_camera"
             /\ lastCmd'.res = "ok"
             /\ lastCmd'.id = id
             /\ id \in DOMAIN cameras'
             /\ cameras'[id].id = id
             /\ cameras'[id].host = run.cfg.Host
             /\ cameras'[id].channel = run.cfg.Channel
             /\ run.cfg.Protocol # "" => cameras'[id].protocol = run.cfg.Protocol]_vars

====
